---------------------------- MODULE Spec2Model ----------------------------
(***************************************************************************)
(* A model of the MCP client of Q07K/mcp-client-playground:                *)
(*   - the server registry and tool router of BaseMCPClient                *)
(*     (src/src/mcps/clients/base.py: add_server, load_servers_from_config,*)
(*     get_all_tools, call_tool, execute_tool, cleanup),                   *)
(*   - the audit decorator log_tool_call (src/src/core/logger.py),         *)
(*   - the ReAct loop BaseMCPClient.chat with the two provider adapters    *)
(*     (src/src/mcps/clients/openai.py, src/src/mcps/clients/gemini.py).   *)
(***************************************************************************)
EXTENDS Integers, Sequences, FiniteSets, TLC

(***************************************************************************)
(* Bounds of the model.                                                    *)
(***************************************************************************)
\* add_server calls in one behaviour of the registry specification
MaxAdds == 2
\* model requests (send) in one chat invocation
MaxSends == 3

(***************************************************************************)
(* Input domains.                                                          *)
(***************************************************************************)
ServerNames == {"A", "B"}
\* tool names a server can advertise
ToolNames == {"x", "y", "z"}
\* a tool name no server of the model advertises
UnknownTool == "u"
\* the tool lists (in the server's own order) a server answers list_tools with
ToolLists == {<<"x", "y">>, <<"y", "z">>, <<"z">>}
\* where add_server can stop: the awaited calls of base.py:68-78, or not at all
Outcomes == {"ok", "transport", "session", "handshake", "list"}
\* sentinel for Python's None
None == "none"

VARIABLES
    sessions,        \* self.sessions: server name -> connection id
    sessOrder,       \* insertion order of the keys of self.sessions (a dict)
    tool_to_server,  \* self.tool_to_server: tool name -> server name
    exit_stack,      \* self.exit_stack: the contexts entered, oldest first
    conns,           \* connection id -> [name, tools]: every transport opened
    released,        \* the contexts exit_stack.aclose() has exited, in order
    registered,      \* history: the add_server calls that returned normally
    lastOp,          \* history: the public operation that has just ended and
                     \* its outcome, until the caller goes on
    \* ---- one chat invocation (BaseMCPClient.chat) ----
    adapter,         \* which subclass the client is: "openai" or "gemini"
    pc,              \* where the invocation is in chat's body
    mcp_tools,       \* chat's local mcp_tools
    llm_tools,       \* chat's local llm_tools
    messages,        \* chat's local messages
    response,        \* chat's local response
    step,            \* chat's local step
    call_count,      \* chat's local call_count
    result,          \* chat's local result
    returned,        \* what chat returned, or the error it raised
    gemini,          \* GeminiMCPClient's _chat, _pending_user_input and
                     \* _pending_tool_response
    provider,        \* the LLM provider: the sessions it has created and the
                     \* requests it has received, in order
    hist,            \* history of the invocation: the adapter calls made, the
                     \* audited dispatches, what is in flight
    \* ---- the client's lifetime ----
    life,            \* the `async with client:` scope the client is used in (if
                     \* any) and how it was left; whether chat has been called
                     \* before and how that call ended; history: the tool
                     \* list at the start of the invocation, the connection
                     \* added while it was suspended, the provider sessions
                     \* that existed when the invocation started
    \* ---- a second client instance ----
    peer,            \* the instance's own registry and what its chat has done
    \* ---- a second chat invocation on the same client ----
    chat2            \* the locals of a chat call made while the first is
                     \* suspended; history: the requests it sent, the
                     \* sessions it created, the tool results each call stored

regVars == <<sessions, sessOrder, tool_to_server, exit_stack, conns, released,
             registered, lastOp>>

chatVars == <<adapter, pc, mcp_tools, llm_tools, messages, response, step,
              call_count, result, returned, gemini, provider, hist>>

lifeVars == <<life, chat2>>

peerVars == <<peer>>

vars == <<regVars, chatVars, lifeVars, peerVars>>

(***************************************************************************)
(* Helpers on finite maps and sequences.                                   *)
(***************************************************************************)
EmptyMap == [k \in {} |-> None]

\* d[k] = v of a Python dict
Put(d, k, v) == [j \in DOMAIN d \cup {k} |-> IF j = k THEN v ELSE d[j]]

Range(s) == {s[i] : i \in DOMAIN s}

Reverse(s) == [i \in 1..Len(s) |-> s[Len(s) + 1 - i]]

\* for tool in tools: d[tool] = name   (base.py:79-80)
RECURSIVE PutAll(_, _, _)
PutAll(d, tools, name) ==
    IF tools = <<>> THEN d
    ELSE PutAll(Put(d, Head(tools), name), Tail(tools), name)

(***************************************************************************)
(* The registry as a value, so that operations compose.                    *)
(***************************************************************************)
Reg == [sessions |-> sessions, sessOrder |-> sessOrder,
        tool_to_server |-> tool_to_server, exit_stack |-> exit_stack,
        conns |-> conns, registered |-> registered]

EmptyReg == [sessions |-> EmptyMap, sessOrder |-> <<>>,
             tool_to_server |-> EmptyMap, exit_stack |-> <<>>,
             conns |-> <<>>, registered |-> <<>>]

Ctx(kind, id) == [ctx |-> kind, conn |-> id]

\* a variant of add_server that does not put the session into self.sessions
StoreSessionSkip(r, name, id) == r

\* self.sessions[name] = session   (base.py:76); a dict keeps a key's first
\* position when the key is assigned again
StoreSession(r, name, id) ==
    [r EXCEPT !.sessions = Put(r.sessions, name, id),
              !.sessOrder = IF name \in Range(r.sessOrder) THEN r.sessOrder
                            ELSE Append(r.sessOrder, name)]

\* a variant that keeps the entry a tool already has (dict.setdefault)
RECURSIVE PutAllNew(_, _, _)
PutAllNew(d, tools, name) ==
    IF tools = <<>> THEN d
    ELSE PutAllNew(IF Head(tools) \in DOMAIN d THEN d
                   ELSE Put(d, Head(tools), name), Tail(tools), name)

StoreRoutesKeepFirst(r, name, tools) ==
    [r EXCEPT !.tool_to_server = PutAllNew(r.tool_to_server, tools, name)]

\* for tool in tools_resp.tools: self.tool_to_server[tool.name] = name
StoreRoutes(r, name, tools) ==
    [r EXCEPT !.tool_to_server = PutAll(r.tool_to_server, tools, name)]

\* BaseMCPClient.add_server, stopping where `outcome` says
AddServerEffect(r, name, tools, outcome) ==
    LET id == Len(r.conns) + 1
        r1 == [r EXCEPT !.conns = Append(r.conns, [name |-> name, tools |-> tools,
                                                   outcome |-> outcome]),
                        !.exit_stack = Append(r.exit_stack, Ctx("transport", id))]
        r2 == [r1 EXCEPT !.exit_stack = Append(r1.exit_stack, Ctx("session", id))]
        r3 == StoreSession(r2, name, id)
        r4 == StoreRoutes(r3, name, tools)
        r5 == [r4 EXCEPT !.registered =
                            Append(r4.registered, [name |-> name, tools |-> tools])]
    IN  CASE outcome = "transport" -> r
          [] outcome = "session"   -> r1
          [] outcome = "handshake" -> r2
          [] outcome = "list"      -> r3
          [] OTHER                 -> r5

SetReg(r) ==
    /\ sessions' = r.sessions
    /\ sessOrder' = r.sessOrder
    /\ tool_to_server' = r.tool_to_server
    /\ exit_stack' = r.exit_stack
    /\ conns' = r.conns
    /\ registered' = r.registered

(***************************************************************************)
(* Tool router.                                                            *)
(***************************************************************************)
\* self.tool_to_server.get(name)   (base.py:132)
Resolve(routes, tool) == IF tool \in DOMAIN routes THEN routes[tool] ELSE None

\* what the tool server does with a call: it returns a result with this
\* content, or the call raises
ToolAnswer(ok, content) == [ok |-> ok, content |-> content]

\* a variant that sends a tool it cannot resolve to the first server
CallToolDefaultServer(r, tool, arguments, answer) ==
    IF Resolve(r.tool_to_server, tool) = None /\ r.sessOrder = <<>>
    THEN [outcome |-> "ToolNotFound", called |-> <<>>, value |-> <<>>]
    ELSE [outcome |-> IF answer.ok THEN "ok" ELSE "ToolError",
          called |-> <<[conn |-> IF Resolve(r.tool_to_server, tool) = None
                                 THEN r.sessions[r.sessOrder[1]]
                                 ELSE r.sessions[Resolve(r.tool_to_server, tool)],
                        tool |-> tool, arguments |-> arguments]>>,
          value |-> IF answer.ok THEN <<[content |-> answer.content]>>
                    ELSE <<>>]

\* BaseMCPClient.call_tool: the error raised, or the connection called, with
\* what, and the result it returned
CallTool(r, tool, arguments, answer) ==
    IF Resolve(r.tool_to_server, tool) = None
    THEN [outcome |-> "ToolNotFound", called |-> <<>>, value |-> <<>>]
    ELSE [outcome |-> IF answer.ok THEN "ok" ELSE "ToolError",
          called |-> <<[conn |-> r.sessions[Resolve(r.tool_to_server, tool)],
                        tool |-> tool, arguments |-> arguments]>>,
          value |-> IF answer.ok THEN <<[content |-> answer.content]>>
                    ELSE <<>>]

\* a variant whose except branch logs the error and returns
LogToolCallSwallow(inner, index) ==
    [outcome |-> "ok", called |-> inner.called,
     value |-> IF inner.outcome = "ok" THEN inner.value
               ELSE <<[content |-> [tool |-> "error", index |-> index]]>>,
     logged |-> <<[index |-> index,
                   kind |-> IF inner.outcome = "ok" THEN "result" ELSE "error"]>>]

\* a variant that awaits the wrapped function a second time when it raised
LogToolCallRetry(inner, index) ==
    [outcome |-> inner.outcome,
     called |-> IF inner.outcome = "ok" THEN inner.called
                ELSE inner.called \o inner.called,
     value |-> inner.value,
     logged |-> <<[index |-> index,
                   kind |-> IF inner.outcome = "ok" THEN "result" ELSE "error"]>>]

\* log_tool_call's wrapper around execute_tool: logs the call, awaits the
\* wrapped function once, logs the result or the error, returns the result
\* or re-raises
LogToolCall(inner, index) ==
    [outcome |-> inner.outcome, called |-> inner.called, value |-> inner.value,
     logged |-> <<[index |-> index,
                   kind |-> IF inner.outcome = "ok" THEN "result" ELSE "error"]>>]

\* BaseMCPClient.execute_tool
ExecuteTool(r, index, tool, arguments, answer) ==
    LogToolCall(CallTool(r, tool, arguments, answer), index)

(***************************************************************************)
(* load_servers_from_config and get_all_tools as functions of the registry.*)
(***************************************************************************)
\* ---- configuration (src/src/core/config.py) ----
\* An optional key of a JSON object is a sequence: <<>> when the key is
\* missing, <<v>> when it is there.  A transport value is the sequence of its
\* characters, so that str.lower() is computed on it.
Get(opt, default) == IF opt = <<>> THEN default ELSE opt[1]

LowerChar(c) ==
    CASE c = "H" -> "h"
      [] c = "T" -> "t"
      [] c = "P" -> "p"
      [] c = "S" -> "s"
      [] c = "E" -> "e"
      [] c = "W" -> "w"
      [] OTHER   -> c

\* str.lower()
Lower(str) == [i \in 1..Len(str) |-> LowerChar(str[i])]

\* TransportType(value): the member with that value (named here by its
\* value), or <<>> where the enum raises ValueError
TransportType(value) ==
    IF value = <<"s", "s", "e">> THEN <<"sse">>
    ELSE IF value = <<"h", "t", "t", "p">> THEN <<"http">>
    ELSE <<>>

\* the default of MCPServerConfig.timeout and of config.get("timeout", 30)
DefaultTimeout == 30

\* the dataclass MCPServerConfig; transport, headers and timeout are <<>>
\* where the constructor is called without them (the defaults apply)
MCPServerConfig(name, url, transport, headers, timeout) ==
    [name |-> name, url |-> url, transport |-> Get(transport, "sse"),
     headers |-> Get(headers, <<>>), timeout |-> Get(timeout, DefaultTimeout)]

\* a variant whose missing transport becomes HTTP
FromDictEntryDefaultHttp(name, config) ==
    LET transport_str == Lower(Get(config.transport, <<"h", "t", "t", "p">>))
        transport == Get(TransportType(transport_str), "sse")
    IN  MCPServerConfig(name, Get(config.url, ""), <<transport>>,
                        <<Get(config.headers, <<>>)>>,
                        <<Get(config.timeout, DefaultTimeout)>>)

\* the body of the loop of MCPConfig.from_dict: one server entry to its
\* descriptor (an unknown transport falls back to SSE)
FromDictEntry(name, config) ==
    LET transport_str == Lower(Get(config.transport, <<"s", "s", "e">>))
        transport == Get(TransportType(transport_str), "sse")
    IN  MCPServerConfig(name, Get(config.url, ""), <<transport>>,
                        <<Get(config.headers, <<>>)>>,
                        <<Get(config.timeout, DefaultTimeout)>>)

\* MCPConfig.from_dict: data["mcpServers"] is the sequence of its
\* <<name, entry>> items in the dict's order ({} when the key is missing)
FromDict(data) ==
    LET mcp_servers == Get(data.mcpServers, <<>>)
    IN  [i \in 1..Len(mcp_servers) |->
            FromDictEntry(mcp_servers[i][1], mcp_servers[i][2])]

Resolved(servers) == [ok |-> TRUE, error |-> "none", servers |-> servers]
Unresolved(error) == [ok |-> FALSE, error |-> error, servers |-> <<>>]

\* MCPConfig.from_json: `parsed` is what json.loads makes of the text, <<>>
\* when it raises
FromJson(text) ==
    IF text.parsed = <<>> THEN Unresolved("JSONDecodeError")
    ELSE Resolved(FromDict(text.parsed[1]))

\* a variant that takes a missing file for an empty configuration
FromFileMissingIsEmpty(file) ==
    IF file = <<>> THEN Resolved(<<>>)
    ELSE IF file[1].parsed = <<>> THEN Unresolved("JSONDecodeError")
    ELSE Resolved(FromDict(file[1].parsed[1]))

\* MCPConfig.from_file: `file` is <<>> when the path does not exist, and
\* otherwise holds the file's text
FromFile(file) ==
    IF file = <<>> THEN Unresolved("FileNotFoundError")
    ELSE IF file[1].parsed = <<>> THEN Unresolved("JSONDecodeError")
    ELSE Resolved(FromDict(file[1].parsed[1]))

\* the first statement of load_servers_from_config (base.py:93-102): an
\* MCPConfig is taken as it is, a dict goes through from_dict, a Path or a
\* string that does not start with "{" is a file path, any other string is
\* JSON text
ResolveConfig(config) ==
    IF config.kind = "MCPConfig" THEN Resolved(config.servers)
    ELSE IF config.kind = "dict" THEN Resolved(FromDict(config.data))
    ELSE IF config.kind = "Path" \/ (config.kind = "str" /\ ~config.brace)
    THEN FromFile(config.file)
    ELSE FromJson(config)

\* server entries of a configuration mapping
Entry(url, transport, headers, timeout) ==
    [url |-> url, transport |-> transport, headers |-> headers,
     timeout |-> timeout]

AuthHeaders == <<<<"Authorization", "Bearer k">>>>

EntryPlain == Entry(<<"http://b/sse">>, <<>>, <<>>, <<>>)
EntrySse == Entry(<<"http://a/sse">>, <<<<"s", "s", "e">>>>, <<<<>>>>, <<30>>)
EntryHttp == Entry(<<"http://a/mcp">>, <<<<"h", "t", "t", "p">>>>,
                   <<AuthHeaders>>, <<60>>)
EntryUpper == Entry(<<"http://a/mcp">>, <<<<"H", "T", "T", "P">>>>, <<>>, <<>>)
EntryUnknown == Entry(<<>>, <<<<"w", "s">>>>, <<AuthHeaders>>, <<>>)

Data(mcp_servers) == [mcpServers |-> mcp_servers]

\* the configuration mappings of the model; the names of one mapping are
\* pairwise distinct, as the keys of a dict are
ConfigData ==
    {Data(<<>>),
     Data(<<<<>>>>),
     Data(<<<<<<"A", EntryUpper>>>>>>),
     Data(<<<<<<"B", EntryUnknown>>>>>>),
     Data(<<<<<<"A", EntryHttp>>, <<"B", EntryPlain>>>>>>),
     Data(<<<<<<"B", EntryPlain>>, <<"A", EntrySse>>>>>>)}

DataAB == Data(<<<<<<"A", EntryHttp>>, <<"B", EntryPlain>>>>>>)

\* what load_servers_from_config is given: an MCPConfig object (also one
\* built by hand with a name twice), a dict, JSON text, or the path of a
\* file as a string or a Path
Sources ==
    {[kind |-> "MCPConfig", servers |-> servers] :
        servers \in {<<>>,
                     <<MCPServerConfig("A", "http://a/sse", <<>>, <<>>, <<>>),
                       MCPServerConfig("A", "http://a/mcp", <<"http">>,
                                       <<AuthHeaders>>, <<>>)>>}}
    \cup {[kind |-> "dict", data |-> data] : data \in ConfigData}
    \cup {[kind |-> "str", brace |-> TRUE, parsed |-> parsed, file |-> <<>>] :
            parsed \in {<<>>, <<DataAB>>}}
    \cup {[kind |-> kind, brace |-> FALSE, parsed |-> <<>>, file |-> file] :
            kind \in {"str", "Path"},
            file \in {<<>>, <<[parsed |-> <<>>]>>, <<[parsed |-> <<DataAB>>]>>}}

\* a variant that passes no headers on
AddServerArgsNoHeaders(server) ==
    [name |-> server.name, url |-> server.url,
     transport |-> server.transport, headers |-> <<>>]

\* the arguments load_servers_from_config calls add_server with
\* (base.py:109-114)
AddServerArgs(server) ==
    [name |-> server.name, url |-> server.url,
     transport |-> server.transport, headers |-> server.headers]

NamesOf(servers) == [i \in 1..Len(servers) |-> servers[i].name]

\* what a server does when add_server reaches it: the tool list it answers
\* list_tools with, or the awaited call that raises
ServerBehaviours ==
    {<<tools, "ok">> : tools \in ToolLists}
        \cup {<<<<>>, outcome>> : outcome \in Outcomes \ {"ok"}}

\* one behaviour per descriptor; the servers after the first one that fails
\* are never reached, so one behaviour stands for all of theirs
Behaviours(descs) ==
    {behav \in [1..Len(descs) -> ServerBehaviours] :
        \A i, j \in 1..Len(descs) :
            (i < j /\ behav[i][2] # "ok") => behav[j] = <<<<>>, "transport">>}

\* a variant that registers the first descriptor only
LoadLoopFirstOnly(r, descs, behav, i) ==
    IF descs = <<>>
    THEN [reg |-> r, ok |-> TRUE, attempts |-> 0, calls |-> <<>>,
          error |-> "none"]
    ELSE [reg |-> AddServerEffect(r, descs[1].name, behav[1][1], behav[1][2]),
          ok |-> behav[1][2] = "ok", attempts |-> 1,
          calls |-> <<AddServerArgs(descs[1])>>,
          error |-> IF behav[1][2] = "ok" THEN "none" ELSE behav[1][2]]

\* a variant that goes on with the next descriptor when add_server raises,
\* and raises the first error at the end
RECURSIVE LoadLoopSkipFailed(_, _, _, _)
LoadLoopSkipFailed(r, descs, behav, i) ==
    IF i > Len(descs)
    THEN [reg |-> r, ok |-> TRUE, attempts |-> i - 1, calls |-> <<>>,
          error |-> "none"]
    ELSE LET r1 == AddServerEffect(r, descs[i].name, behav[i][1], behav[i][2])
             rest == LoadLoopSkipFailed(r1, descs, behav, i + 1)
         IN  [rest EXCEPT !.calls = <<AddServerArgs(descs[i])>> \o @,
                          !.ok = @ /\ behav[i][2] = "ok",
                          !.error = IF behav[i][2] = "ok" THEN @
                                    ELSE behav[i][2]]

\* for server in mcp_config.servers: await self.add_server(...)
\* (base.py:108-114): an add_server that raises ends the loop.  The result:
\* the registry, whether the loop ended normally, how many add_server calls
\* were made and with which arguments, and the error that ended it
RECURSIVE LoadLoop(_, _, _, _)
LoadLoop(r, descs, behav, i) ==
    IF i > Len(descs)
    THEN [reg |-> r, ok |-> TRUE, attempts |-> i - 1, calls |-> <<>>,
          error |-> "none"]
    ELSE LET r1 == AddServerEffect(r, descs[i].name, behav[i][1], behav[i][2])
         IN  IF behav[i][2] = "ok"
             THEN LET rest == LoadLoop(r1, descs, behav, i + 1)
                  IN  [rest EXCEPT !.calls = <<AddServerArgs(descs[i])>> \o @]
             ELSE [reg |-> r1, ok |-> FALSE, attempts |-> i,
                   calls |-> <<AddServerArgs(descs[i])>>,
                   error |-> behav[i][2]]

\* an answer to list_tools: a tool list, or an error
ListAnswer(ok, tools) == [ok |-> ok, tools |-> tools]

\* a tool list no server advertises when it is registered
ChangedTools == <<"z", "x">>

\* what the sessions of the map answer list_tools with when they are asked
\* again: each its list of registration time, another list, or an error
ListAnswers(r) ==
    {answers \in [1..Len(r.sessOrder) ->
                     {ListAnswer(TRUE, tools) :
                          tools \in ToolLists \cup {<<>>, ChangedTools}}
                     \cup {ListAnswer(FALSE, <<>>)}] :
        \A i \in 1..Len(r.sessOrder) :
            \/ ~answers[i].ok
            \/ answers[i].tools = ChangedTools
            \/ answers[i].tools = r.conns[r.sessions[r.sessOrder[i]]].tools}

\* the answers of servers that advertise what they advertised when they
\* were registered
RegisteredAnswers(r) ==
    [i \in 1..Len(r.sessOrder) |->
        ListAnswer(TRUE, r.conns[r.sessions[r.sessOrder[i]]].tools)]

\* a variant that answers from the tool lists of registration time
RECURSIVE GetAllToolsLoopCached(_, _, _)
GetAllToolsLoopCached(r, answers, i) ==
    IF i > Len(r.sessOrder)
    THEN [ok |-> TRUE, tools |-> <<>>, queried |-> <<>>]
    ELSE LET id == r.sessions[r.sessOrder[i]]
             rest == GetAllToolsLoopCached(r, answers, i + 1)
         IN  [rest EXCEPT !.tools = r.conns[id].tools \o @]

\* BaseMCPClient.get_all_tools: every session of self.sessions.values(), in
\* the dict's order, is asked once and the answers are concatenated; an
\* answer that raises ends the call.  The result: whether it returned, the
\* tools, and the connections asked, in order
RECURSIVE GetAllToolsLoop(_, _, _)
GetAllToolsLoop(r, answers, i) ==
    IF i > Len(r.sessOrder)
    THEN [ok |-> TRUE, tools |-> <<>>, queried |-> <<>>]
    ELSE LET id == r.sessions[r.sessOrder[i]]
         IN  IF ~answers[i].ok
             THEN [ok |-> FALSE, tools |-> <<>>, queried |-> <<id>>]
             ELSE LET rest == GetAllToolsLoop(r, answers, i + 1)
                  IN  [rest EXCEPT !.queried = <<id>> \o @,
                                   !.tools = IF rest.ok
                                             THEN answers[i].tools \o @
                                             ELSE <<>>]

\* get_all_tools of servers that advertise what they were registered with
GetAllToolsOf(r) == GetAllToolsLoop(r, RegisteredAnswers(r), 1).tools

(***************************************************************************)
(* The provider adapters (openai.py, gemini.py).                            *)
(* A Python value that may be None is a sequence: <<>> for None, <<v>> for  *)
(* v.  A text is the sequence of its pieces ("" is <<>>), so that joining   *)
(* texts is concatenation.                                                  *)
(***************************************************************************)
Adapters == {"openai", "gemini"}

UserInput == <<"q1">>
\* the user_input of a later chat call on the same client
NextUserInput == <<"q2">>
SystemPrompt == <<"REACT_SYSTEM_PROMPT">>

\* a tool call of an OpenAI response; `arguments` is its JSON text ("bad" is
\* text json.loads rejects)
Call(id, name, arguments) == [id |-> id, name |-> name, arguments |-> arguments]

\* ChatCompletion values: choices[0].message with its content and tool_calls
OpenAIMessage(content, tool_calls) ==
    [role |-> "assistant", content |-> content, tool_calls |-> tool_calls]

OpenAIResponses ==
    {[choices |-> <<OpenAIMessage(c, tcs)>>] :
        c \in {<<>>, <<<<"text">>>>},
        tcs \in {<<>>,
                 <<Call("c1", "x", "{}")>>,
                 <<Call("c1", "u", "{}")>>,
                 <<Call("c1", "x", "{}"), Call("c2", "z", "{}")>>,
                 <<Call("c1", "z", "{}"), Call("c2", "x", "{}")>>}}
        \cup {[choices |-> <<>>],
              [choices |-> <<OpenAIMessage(<<>>, <<Call("c1", "x", "bad")>>)>>]}

\* GenerateContentResponse values: candidates[0].content.parts, each part
\* with a text ("" when it has none) or a function_call
TextPart(t) == [text |-> t, function_call |-> <<>>]
CallPart(name) == [text |-> "", function_call |-> <<name>>]

GeminiResponses ==
    {[candidates |-> <<[parts |-> parts]>>] :
        parts \in {<<TextPart("text")>>,
                   <<TextPart("text"), TextPart("more")>>,
                   <<CallPart("x")>>,
                   <<CallPart("u")>>,
                   <<TextPart("text"), CallPart("x"), CallPart("z")>>,
                   <<CallPart("z"), TextPart("text"), CallPart("x")>>}}
        \cup {[candidates |-> <<>>]}

Responses(ad) == IF ad = "openai" THEN OpenAIResponses ELSE GeminiResponses

\* _convert_tools: one declaration per tool, in the tools' order
ConvertTools(ad, tools) ==
    IF ad = "openai"
    THEN [i \in 1..Len(tools) |-> [type |-> "function", name |-> tools[i]]]
    ELSE <<[function_declarations |-> tools]>>

\* _create_initial_messages
CreateInitialMessages(ad, user_input) ==
    IF ad = "openai"
    THEN <<[role |-> "system", content |-> SystemPrompt],
           [role |-> "user", content |-> user_input]>>
    ELSE <<>>

\* ReActStep / ToolCallInfo
ReActStep(thought, tool_call) == [thought |-> thought, tool_call |-> tool_call]
ToolCallInfo(name, arguments, call_id) ==
    [name |-> name, arguments |-> arguments, call_id |-> call_id]

\* json.loads of a tool call's arguments: <<dict>>, or <<>> where it raises
JsonLoads(text) == IF text = "{}" THEN <<<<>>>> ELSE <<>>

IsTextPart(p) == p.text # ""
IsCallPart(p) == p.function_call # <<>>

\* the texts of the text parts, in the response's order
TextsOf(parts) ==
    LET text_parts == SelectSeq(parts, IsTextPart)
    IN  [i \in 1..Len(text_parts) |-> text_parts[i].text]

\* a variant that takes the last tool call of the response
OpenAIParseLast(resp) ==
    IF resp.choices = <<>> THEN [raises |-> TRUE, step |-> <<>>]
    ELSE LET message == resp.choices[1]
         IN  IF message.tool_calls = <<>>
             THEN [raises |-> FALSE,
                   step |-> <<ReActStep(message.content, <<>>)>>]
             ELSE LET tc == message.tool_calls[Len(message.tool_calls)]
                  IN  IF JsonLoads(tc.arguments) = <<>>
                      THEN [raises |-> TRUE, step |-> <<>>]
                      ELSE [raises |-> FALSE,
                            step |-> <<ReActStep(message.content,
                                         <<ToolCallInfo(tc.name,
                                                        JsonLoads(tc.arguments)[1],
                                                        <<tc.id>>)>>)>>]

\* OpenAIMCPClient._parse_response: [raises, step]
OpenAIParse(resp) ==
    IF resp.choices = <<>> THEN [raises |-> TRUE, step |-> <<>>]
    ELSE LET message == resp.choices[1]
         IN  IF message.tool_calls = <<>>
             THEN [raises |-> FALSE,
                   step |-> <<ReActStep(message.content, <<>>)>>]
             ELSE LET tc == message.tool_calls[1]
                  IN  IF JsonLoads(tc.arguments) = <<>>
                      THEN [raises |-> TRUE, step |-> <<>>]
                      ELSE [raises |-> FALSE,
                            step |-> <<ReActStep(message.content,
                                         <<ToolCallInfo(tc.name,
                                                        JsonLoads(tc.arguments)[1],
                                                        <<tc.id>>)>>)>>]

\* GeminiMCPClient._parse_response: [raises, step]
GeminiParse(resp) ==
    IF resp.candidates = <<>> THEN [raises |-> TRUE, step |-> <<>>]
    ELSE LET parts == resp.candidates[1].parts
             fc_parts == SelectSeq(parts, IsCallPart)
             thought == IF TextsOf(parts) = <<>> THEN <<>>
                        ELSE <<TextsOf(parts)>>
         IN  IF fc_parts = <<>>
             THEN [raises |-> FALSE, step |-> <<ReActStep(thought, <<>>)>>]
             ELSE [raises |-> FALSE,
                   step |-> <<ReActStep(thought,
                                <<ToolCallInfo(fc_parts[1].function_call[1],
                                               <<>>, <<>>)>>)>>]

ParseResponse(ad, resp) ==
    IF ad = "openai" THEN OpenAIParse(resp) ELSE GeminiParse(resp)

\* _append_assistant_message: OpenAI appends choices[0].message, Gemini's
\* chat object keeps the history itself
AppendAssistantMessage(ad, msgs, resp) ==
    IF ad = "openai" THEN Append(msgs, resp.choices[1]) ELSE msgs

\* the tool message or function-response part made of a tool result
OpenAIToolMessage(tool_call, res) ==
    [role |-> "tool",
     tool_call_id |-> IF tool_call.call_id = <<>> THEN "" ELSE tool_call.call_id[1],
     content |-> res.content]
GeminiFunctionResponse(tool_call, res) ==
    [name |-> tool_call.name, response |-> res.content]

\* _append_tool_result on the message list (OpenAI appends, Gemini does not)
AppendToolResult(ad, msgs, tool_call, res) ==
    IF ad = "openai" THEN Append(msgs, OpenAIToolMessage(tool_call, res))
    ELSE msgs

\* _append_tool_result on the Gemini client (the pending tool response)
PendToolResult(ad, g, tool_call, res) ==
    IF ad = "openai" THEN g
    ELSE [g EXCEPT !.pending_tool_response =
                       <<GeminiFunctionResponse(tool_call, res)>>]

\* _get_final_response: message.content or "" / response.text
GetFinalResponse(ad, resp) ==
    IF ad = "openai"
    THEN IF resp.choices[1].content = <<>> THEN <<<<>>>>
         ELSE resp.choices[1].content
    ELSE IF TextsOf(resp.candidates[1].parts) = <<>> THEN <<>>
         ELSE <<TextsOf(resp.candidates[1].parts)>>

(***************************************************************************)
(* Registry operations as actions.  The client's caller awaits one         *)
(* operation at a time: it starts one when it is idle, and lastOp holds    *)
(* what that operation did until the caller goes on (Continue).            *)
(***************************************************************************)
Idle == [op |-> "idle"]

\* no scope, chat not called before
NoLife == [scope |-> "none", path |-> "none", again |-> FALSE,
           snapshot |-> <<>>, midcall |-> <<>>, premid |-> <<>>,
           sessions_before |-> 0, ended |-> "none"]

\* the user_input argument of the chat call that is running
CurrentInput == IF life.again THEN NextUserInput ELSE UserInput

\* a second instance that has just been constructed
NewPeer == [reg |-> EmptyReg, released |-> <<>>, pc |-> "idle",
            mcp_tools |-> <<>>, tool |-> "", requests |-> <<>>,
            dispatched |-> <<>>, returned |-> "none"]

\* no second chat call has been made on the client
NoChat2 == [pc |-> "idle", tool |-> "", call_count |-> 0, sent |-> {},
            created |-> {}, stored |-> {}, stored1 |-> {}, entered |-> <<>>]

\* chat has not been called
ChatNotStarted ==
    /\ adapter \in Adapters
    /\ peer = NewPeer
    /\ chat2 = NoChat2
    /\ pc = "idle"
    /\ mcp_tools = <<>>
    /\ llm_tools = <<>>
    /\ messages = <<>>
    /\ response = <<>>
    /\ step = <<>>
    /\ call_count = 0
    /\ result = <<>>
    /\ returned = [kind |-> "none"]
    /\ gemini = [chat |-> 0, pending_user_input |-> <<>>,
                 pending_tool_response |-> <<>>]
    /\ provider = [sessions |-> <<>>, requests |-> <<>>]
    /\ hist = [sends |-> <<>>, parses |-> <<>>, assistant_turns |-> 0,
               tool_results |-> 0, audit |-> <<>>, completed |-> 0,
               tool_in_flight |-> 0, model_in_flight |-> 0, extracts |-> 0]

\* a new client (base.py:52-55); the registry and the router are
\* BaseMCPClient's, inherited unchanged by both subclasses, so one subclass
\* stands for both here
Init ==
    /\ ChatNotStarted
    /\ life = NoLife
    /\ adapter = "openai"
    /\ sessions = EmptyMap
    /\ sessOrder = <<>>
    /\ tool_to_server = EmptyMap
    /\ exit_stack = <<>>
    /\ conns = <<>>
    /\ registered = <<>>
    /\ released = <<>>
    /\ lastOp = Idle

\* await client.add_server(name, url, transport, headers)
AddServer ==
    \E name \in ServerNames, b \in ServerBehaviours :
        /\ lastOp = Idle
        /\ Len(conns) < MaxAdds
        /\ SetReg(AddServerEffect(Reg, name, b[1], b[2]))
        /\ lastOp' = [op |-> "add_server", name |-> name, tools |-> b[1],
                      outcome |-> b[2], pre |-> Reg, before |-> Len(released)]
        /\ UNCHANGED released

\* await client.load_servers_from_config(config): the configuration is
\* resolved first, then the loop runs
LoadServersFromConfig ==
    /\ lastOp = Idle
    /\ \E config \in Sources :
        LET resolved == ResolveConfig(config)
        IN  \E behav \in Behaviours(resolved.servers) :
              /\ Len(conns) + Len(resolved.servers) <= MaxAdds
              /\ LET res == IF resolved.ok
                            THEN LoadLoop(Reg, resolved.servers, behav, 1)
                            ELSE [reg |-> Reg, ok |-> FALSE, attempts |-> 0,
                                  calls |-> <<>>, error |-> resolved.error]
                 IN  /\ SetReg(res.reg)
                     /\ lastOp' = [op |-> "load", source |-> config,
                                   servers |-> resolved.servers,
                                   descs |-> NamesOf(resolved.servers),
                                   behav |-> behav, resolves |-> resolved.ok,
                                   ok |-> res.ok, attempts |-> res.attempts,
                                   calls |-> res.calls, error |-> res.error,
                                   pre |-> Reg]
              /\ UNCHANGED released

\* the arguments and the tool answers of the dispatches of the model
DispatchArguments == {<<>>, <<<<"a", 15>>, <<"b", 3>>>>}
DispatchAnswers == {ToolAnswer(TRUE, "45"), ToolAnswer(FALSE, "")}

\* await client.call_tool(name, arguments), or through the audit wrapper
\* await client.execute_tool(call_count, name, arguments)
Dispatch ==
    /\ lastOp = Idle
    /\ \E tool \in ToolNames \cup {UnknownTool}, audited \in BOOLEAN,
          arguments \in DispatchArguments, answer \in DispatchAnswers :
        /\ lastOp' = [op |-> "dispatch", tool |-> tool, audited |-> audited,
                      arguments |-> arguments, answer |-> answer,
                      res |-> IF audited
                              THEN ExecuteTool(Reg, 1, tool, arguments, answer)
                              ELSE CallTool(Reg, tool, arguments, answer)]
        /\ UNCHANGED <<sessions, sessOrder, tool_to_server, exit_stack, conns,
                       released, registered>>

\* await client.get_all_tools()
GetAllTools ==
    /\ lastOp = Idle
    /\ \E answers \in ListAnswers(Reg) :
        /\ LET res == GetAllToolsLoop(Reg, answers, 1)
           IN  lastOp' = [op |-> "get_all_tools", answers |-> answers,
                          ok |-> res.ok, tools |-> res.tools,
                          queried |-> res.queried]
        /\ UNCHANGED <<sessions, sessOrder, tool_to_server, exit_stack, conns,
                       released, registered>>

\* a variant of aclose that exits the contexts oldest first
AcloseOldestFirst(stack) == [exited |-> stack, stack |-> <<>>]

\* a variant of aclose that leaves the exited contexts on the stack
AcloseKeepsStack(stack) == [exited |-> Reverse(stack), stack |-> stack]

\* AsyncExitStack.aclose(): the entered contexts are exited newest first and
\* the stack is left empty
Aclose(stack) == [exited |-> Reverse(stack), stack |-> <<>>]

\* await client.cleanup()
Cleanup ==
    /\ lastOp = Idle
    /\ released' = released \o Aclose(exit_stack).exited
    /\ exit_stack' = Aclose(exit_stack).stack
    /\ lastOp' = [op |-> "cleanup", exited |-> Len(Aclose(exit_stack).exited),
                  before |-> Len(released)]
    /\ UNCHANGED <<sessions, sessOrder, tool_to_server, conns, registered>>

\* the caller has the outcome and goes on to its next operation
Continue ==
    /\ lastOp # Idle
    /\ lastOp' = Idle
    /\ UNCHANGED <<sessions, sessOrder, tool_to_server, exit_stack, conns,
                   released, registered>>

Next ==
    \/ Continue /\ UNCHANGED <<chatVars, lifeVars, peerVars>>
    \/ AddServer /\ UNCHANGED <<chatVars, lifeVars, peerVars>>
    \/ LoadServersFromConfig /\ UNCHANGED <<chatVars, lifeVars, peerVars>>
    \/ Dispatch /\ UNCHANGED <<chatVars, lifeVars, peerVars>>
    \/ GetAllTools /\ UNCHANGED <<chatVars, lifeVars, peerVars>>
    \/ Cleanup /\ UNCHANGED <<chatVars, lifeVars, peerVars>>

\* the registry and the router, from a new client
Spec == Init /\ [][Next]_vars

(***************************************************************************)
(* BaseMCPClient.chat (base.py:197-235), one action per statement.  An      *)
(* adapter method, the tool-list query and the model request may raise;     *)
(* chat has no try, so whatever raises ends the invocation (Raise).         *)
(***************************************************************************)
\* a variant in which chat catches the error and asks the model again
RaiseCaught(what) ==
    /\ pc' = "send"
    /\ returned' = [kind |-> "error", error |-> what,
                    sends |-> Len(hist.sends), dispatched |-> Len(hist.audit)]

Raise(what) ==
    /\ pc' = "failed"
    /\ returned' = [kind |-> "error", error |-> what,
                    sends |-> Len(hist.sends), dispatched |-> Len(hist.audit)]

\* a variant that goes on asking the model instead of leaving the loop
AfterParseNoBreak(st) ==
    IF st.tool_call = <<>> THEN "send" ELSE "append_assistant"

\* a variant that dispatches without appending the assistant's turn
AfterParseNoAssistant(st) == IF st.tool_call = <<>> THEN "final" ELSE "dispatch"

\* a variant that also leaves the loop after two tool calls
AfterParseCapped(st) ==
    IF st.tool_call = <<>> \/ call_count >= 2 THEN "final"
    ELSE "append_assistant"

\* if step.tool_call is None: break   (base.py:211-212)
AfterParse(st) == IF st.tool_call = <<>> THEN "final" ELSE "append_assistant"

\* a variant that leaves the counter as it is
NextCallCountStale(c) == c

\* call_count += 1   (base.py:223)
NextCallCount(c) == c + 1

\* a variant that sends the next request without folding the result
AfterToolResultNoAppend == "send"

\* after `result = await self.execute_tool(...)` comes
\* self._append_tool_result(messages, tc, result)   (base.py:229-232)
AfterToolResult == "append_result"

\* a variant that parses the old response again instead of asking the model
AfterAppendResultNoSend == "parse"

\* a variant that leaves the loop after the first tool result
AfterAppendResultStop == "final"

\* after _append_tool_result comes
\* response = self._send_message(model, messages, llm_tools)   (base.py:233)
AfterAppendResult == "send"

\* GeminiMCPClient.chat stores the input, then runs the base chat:
\* mcp_tools = await self.get_all_tools()
ChatStart ==
    /\ pc = "idle"
    /\ gemini' = IF adapter = "gemini"
                 THEN [gemini EXCEPT !.pending_user_input = CurrentInput]
                 ELSE gemini
    /\ \E raises \in BOOLEAN :
          IF raises
          THEN Raise("get_all_tools") /\ UNCHANGED mcp_tools
          ELSE /\ mcp_tools' = GetAllToolsOf(Reg)
               /\ pc' = "convert"
               /\ UNCHANGED returned
    /\ UNCHANGED <<adapter, llm_tools, messages, response, step, call_count,
                   result, provider, hist>>

\* llm_tools = self._convert_tools(mcp_tools) if mcp_tools else None
ConvertToolsStep ==
    /\ pc = "convert"
    /\ \E raises \in BOOLEAN :
          IF raises /\ mcp_tools # <<>>
          THEN Raise("convert_tools") /\ UNCHANGED llm_tools
          ELSE /\ llm_tools' = IF mcp_tools # <<>>
                               THEN ConvertTools(adapter, mcp_tools) ELSE <<>>
               /\ pc' = "create"
               /\ UNCHANGED returned
    /\ UNCHANGED <<adapter, mcp_tools, messages, response, step, call_count,
                   result, gemini, provider, hist>>

\* messages = self._create_initial_messages(user_input)
CreateInitialStep ==
    /\ pc = "create"
    /\ \E raises \in BOOLEAN :
          IF raises
          THEN Raise("create_initial_state") /\ UNCHANGED messages
          ELSE /\ messages' = CreateInitialMessages(adapter, CurrentInput)
               /\ pc' = "send"
               /\ UNCHANGED returned
    /\ UNCHANGED <<adapter, mcp_tools, llm_tools, response, step, call_count,
                   result, gemini, provider, hist>>

\* the request _send_message makes: OpenAI sends the message list and the
\* tools; Gemini creates the chat session when self._chat is None and sends
\* the pending user input, and otherwise sends the pending tool response
SendRequest ==
    /\ pc = "send"
    /\ Len(hist.sends) < MaxSends
    /\ IF adapter = "openai"
       THEN /\ provider' = [provider EXCEPT !.requests =
                   Append(@, [session |-> 0, payload |-> messages,
                              tools |-> llm_tools])]
            /\ UNCHANGED gemini
       ELSE IF gemini.chat = 0
       THEN /\ provider' =
                   [sessions |-> Append(provider.sessions, [tools |-> llm_tools]),
                    requests |-> Append(provider.requests,
                       [session |-> Len(provider.sessions) + 1,
                        payload |-> gemini.pending_user_input,
                        tools |-> llm_tools])]
            /\ gemini' = [gemini EXCEPT !.chat = Len(provider.sessions) + 1]
       ELSE /\ provider' = [provider EXCEPT !.requests =
                   Append(@, [session |-> gemini.chat,
                              payload |-> gemini.pending_tool_response,
                              tools |-> provider.sessions[gemini.chat].tools])]
            /\ UNCHANGED gemini
    /\ hist' = [hist EXCEPT !.model_in_flight = @ + 1,
                            !.sends = Append(@, [dispatched |-> Len(hist.audit),
                                                 completed |-> hist.completed,
                                                 folded |-> hist.tool_results,
                                                 tool_in_flight |-> hist.tool_in_flight])]
    /\ pc' = "awaiting_model"
    /\ UNCHANGED <<adapter, mcp_tools, llm_tools, messages, response, step,
                   call_count, result, returned>>

\* _send_message returns the provider's response, or raises
ReceiveResponse ==
    /\ pc = "awaiting_model"
    /\ hist' = [hist EXCEPT !.model_in_flight = @ - 1]
    /\ \/ Raise("send") /\ UNCHANGED response
       \/ \E resp \in Responses(adapter) :
             /\ response' = resp
             /\ pc' = "parse"
             /\ UNCHANGED returned
    /\ UNCHANGED <<adapter, mcp_tools, llm_tools, messages, step, call_count,
                   result, gemini, provider>>

\* step = self._parse_response(response); if step.tool_call is None: break
ParseStep ==
    /\ pc = "parse"
    /\ LET parsed == ParseResponse(adapter, response)
       IN  IF parsed.raises
           THEN /\ Raise("parse")
                /\ hist' = [hist EXCEPT !.parses = Append(@, "raised")]
                /\ UNCHANGED step
           ELSE /\ step' = parsed.step[1]
                /\ hist' = [hist EXCEPT !.parses =
                               Append(@, IF parsed.step[1].tool_call = <<>>
                                         THEN "answer" ELSE "tool_call")]
                /\ pc' = AfterParse(parsed.step[1])
                /\ UNCHANGED returned
    /\ UNCHANGED <<adapter, mcp_tools, llm_tools, messages, response,
                   call_count, result, gemini, provider>>

\* self._append_assistant_message(messages, response)
AppendAssistantStep ==
    /\ pc = "append_assistant"
    /\ \E raises \in BOOLEAN :
          IF raises
          THEN Raise("append_assistant_turn") /\ UNCHANGED <<messages, hist>>
          ELSE /\ messages' = AppendAssistantMessage(adapter, messages, response)
               /\ hist' = [hist EXCEPT !.assistant_turns = @ + 1]
               /\ pc' = "dispatch"
               /\ UNCHANGED returned
    /\ UNCHANGED <<adapter, mcp_tools, llm_tools, response, step, call_count,
                   result, gemini, provider>>

\* tc = step.tool_call; call_count += 1;
\* ... await self.execute_tool(call_count, tc.name, tc.arguments): the call
DispatchStep ==
    /\ pc = "dispatch"
    /\ call_count' = NextCallCount(call_count)
    /\ hist' = [hist EXCEPT !.tool_in_flight = @ + 1,
                   !.audit = Append(@, [index |-> NextCallCount(call_count),
                                        tool |-> step.tool_call[1].name,
                                        sends |-> Len(hist.sends),
                                        parses |-> Len(hist.parses),
                                        model_in_flight |-> hist.model_in_flight,
                                        response |-> response,
                                        outcome |-> "pending",
                                        logged |-> <<>>])]
    /\ pc' = "awaiting_tool"
    /\ UNCHANGED <<adapter, mcp_tools, llm_tools, messages, response, step,
                   result, returned, gemini, provider>>

\* ... result = await self.execute_tool(...): it returns the tool's result
\* or raises (the tool is unknown, or the tool server fails)
ToolReturn ==
    /\ pc = "awaiting_tool"
    /\ \E ok \in BOOLEAN :
          LET tc == step.tool_call[1]
              answer == ToolAnswer(ok, [tool |-> tc.name, index |-> call_count])
              res == ExecuteTool(Reg, call_count, tc.name, tc.arguments, answer)
          IN  /\ hist' = [hist EXCEPT !.tool_in_flight = @ - 1,
                             !.completed = @ + 1,
                             !.audit[Len(hist.audit)].outcome = res.outcome,
                             !.audit[Len(hist.audit)].logged = res.logged]
              /\ IF res.outcome = "ok"
                 THEN /\ result' = res.value
                      /\ pc' = AfterToolResult
                      /\ UNCHANGED returned
                 ELSE Raise(res.outcome) /\ UNCHANGED result
    /\ UNCHANGED <<adapter, mcp_tools, llm_tools, messages, response, step,
                   call_count, gemini, provider>>

\* self._append_tool_result(messages, tc, result)
AppendToolResultStep ==
    /\ pc = "append_result"
    /\ \E raises \in BOOLEAN :
          IF raises
          THEN Raise("append_tool_result") /\ UNCHANGED <<messages, gemini, hist>>
          ELSE /\ messages' = AppendToolResult(adapter, messages,
                                               step.tool_call[1], result[1])
               /\ gemini' = PendToolResult(adapter, gemini,
                                           step.tool_call[1], result[1])
               /\ hist' = [hist EXCEPT !.tool_results = @ + 1]
               /\ pc' = AfterAppendResult
               /\ UNCHANGED returned
    /\ UNCHANGED <<adapter, mcp_tools, llm_tools, response, step, call_count,
                   result, provider>>

\* return self._get_final_response(response); Gemini's sets
\* self._chat = None first, so also when reading the text raises
FinalStep ==
    /\ pc = "final"
    /\ gemini' = IF adapter = "gemini" THEN [gemini EXCEPT !.chat = 0]
                 ELSE gemini
    /\ \E raises \in BOOLEAN :
          IF raises
          THEN Raise("extract_final_text") /\ UNCHANGED hist
          ELSE /\ returned' = [kind |-> "value",
                               text |-> GetFinalResponse(adapter, response)]
               /\ hist' = [hist EXCEPT !.extracts = @ + 1]
               /\ pc' = "done"
    /\ UNCHANGED <<adapter, mcp_tools, llm_tools, messages, response, step,
                   call_count, result, provider>>

\* the registries a chat invocation is checked on: a new client, and a client
\* with server A (tools x, y) and then server B (tools y, z) registered
RegAB ==
    AddServerEffect(AddServerEffect(EmptyReg, "A", <<"x", "y">>, "ok"),
                    "B", <<"y", "z">>, "ok")

ChatRegs == {EmptyReg, RegAB}

ChatInit ==
    /\ ChatNotStarted
    /\ life = NoLife
    /\ lastOp = Idle
    /\ released = <<>>
    /\ \E r \in ChatRegs :
          /\ sessions = r.sessions
          /\ sessOrder = r.sessOrder
          /\ tool_to_server = r.tool_to_server
          /\ exit_stack = r.exit_stack
          /\ conns = r.conns
          /\ registered = r.registered

ChatNext ==
    \/ ChatStart /\ UNCHANGED <<regVars, lifeVars, peerVars>>
    \/ ConvertToolsStep /\ UNCHANGED <<regVars, lifeVars, peerVars>>
    \/ CreateInitialStep /\ UNCHANGED <<regVars, lifeVars, peerVars>>
    \/ SendRequest /\ UNCHANGED <<regVars, lifeVars, peerVars>>
    \/ ReceiveResponse /\ UNCHANGED <<regVars, lifeVars, peerVars>>
    \/ ParseStep /\ UNCHANGED <<regVars, lifeVars, peerVars>>
    \/ AppendAssistantStep /\ UNCHANGED <<regVars, lifeVars, peerVars>>
    \/ DispatchStep /\ UNCHANGED <<regVars, lifeVars, peerVars>>
    \/ ToolReturn /\ UNCHANGED <<regVars, lifeVars, peerVars>>
    \/ AppendToolResultStep /\ UNCHANGED <<regVars, lifeVars, peerVars>>
    \/ FinalStep /\ UNCHANGED <<regVars, lifeVars, peerVars>>

\* one chat invocation on a client whose servers are registered
SpecChat == ChatInit /\ [][ChatNext]_vars

\* the same where the invocation is not left waiting for ever: the event
\* loop resumes the coroutine when get_all_tools or execute_tool has ended,
\* the provider ends every request with a response or an error, and the
\* code between two awaits runs to the next one
SpecChatFair == SpecChat /\ WF_vars(ChatNext)

(***************************************************************************)
(* The lifetime of a client used as `async with client:` (base.py:243-247): *)
(* chat invocations one after the other, servers added between them and     *)
(* while an invocation is suspended at a tool dispatch, cancellation, and   *)
(* the exit of the scope.  The code between two awaits runs without         *)
(* interruption; _send_message is not awaited, so chat is suspended at      *)
(* get_all_tools and at execute_tool only.                                  *)
(***************************************************************************)
\* a client with server A (tools x, y) registered
RegA == AddServerEffect(EmptyReg, "A", <<"x", "y">>, "ok")

\* what a server added during the lifetime does
LifeBehaviours == {<<<<"z">>, "ok">>, <<<<>>, "handshake">>, <<<<>>, "list">>}

LifeInit ==
    /\ ChatNotStarted
    /\ life = [NoLife EXCEPT !.scope = "open"]
    /\ lastOp = Idle
    /\ released = <<>>
    /\ sessions = RegA.sessions
    /\ sessOrder = RegA.sessOrder
    /\ tool_to_server = RegA.tool_to_server
    /\ exit_stack = RegA.exit_stack
    /\ conns = RegA.conns
    /\ registered = RegA.registered

\* chat is suspended at its tool dispatch: call_tool looks the tool and the
\* session up before its only await (base.py:130-136), so an unrouted tool
\* raises without a suspension
SuspendedAtDispatch ==
    /\ pc = "awaiting_tool"
    /\ Resolve(tool_to_server, step.tool_call[1].name) # None

\* chat is not running, or is suspended at its tool dispatch
ChatSuspended == pc \in {"idle", "done", "failed"} \/ SuspendedAtDispatch

\* await client.add_server("B", ...) in the scope, between chat invocations
\* or by another task while chat is suspended at its tool dispatch; the
\* scope adds B while no connection of that name is stored (replacing a
\* stored name is examined from a new client)
AddServerInScope ==
    /\ life.scope = "open"
    /\ lastOp = Idle
    /\ ChatSuspended
    /\ Len(conns) < MaxAdds
    /\ "B" \notin DOMAIN sessions
    /\ \E b \in LifeBehaviours :
        /\ SetReg(AddServerEffect(Reg, "B", b[1], b[2]))
        /\ lastOp' = [op |-> "add_server", name |-> "B", tools |-> b[1],
                      outcome |-> b[2], pre |-> Reg]
        /\ life' = IF SuspendedAtDispatch
                   THEN [life EXCEPT !.midcall = <<Len(conns) + 1>>]
                   ELSE life
        /\ UNCHANGED chat2
        /\ UNCHANGED released

\* the task awaiting execute_tool is cancelled: CancelledError is raised at
\* the await; it is not an Exception, so log_tool_call logs nothing
\* (logger.py:122) and chat, having no try, ends with it
CancelAtDispatch ==
    /\ life.scope = "open"
    /\ lastOp = Idle
    /\ SuspendedAtDispatch
    /\ hist' = [hist EXCEPT !.tool_in_flight = @ - 1,
                            !.audit[Len(hist.audit)].outcome = "CancelledError"]
    /\ Raise("CancelledError")
    /\ UNCHANGED <<adapter, mcp_tools, llm_tools, messages, response, step,
                   call_count, result, gemini, provider>>

\* chat is called again on the same client, with another user input: new
\* locals, while the instance attributes (the registry, Gemini's _chat and
\* pending fields) are as the invocation before left them
ChatAgain ==
    /\ life.scope = "open"
    /\ lastOp = Idle
    /\ pc \in {"done", "failed"}
    /\ ~life.again
    /\ life' = [life EXCEPT !.again = TRUE, !.premid = life.midcall,
                            !.midcall = <<>>, !.snapshot = <<>>,
                            !.sessions_before = Len(provider.sessions),
                            !.ended = IF pc = "done" THEN "text"
                                      ELSE "error"]
    /\ UNCHANGED chat2
    /\ pc' = "idle"
    /\ mcp_tools' = <<>>
    /\ llm_tools' = <<>>
    /\ messages' = <<>>
    /\ response' = <<>>
    /\ step' = <<>>
    /\ call_count' = 0
    /\ result' = <<>>
    /\ returned' = [kind |-> "none"]
    /\ provider' = [provider EXCEPT !.requests = <<>>]
    /\ hist' = [sends |-> <<>>, parses |-> <<>>, assistant_turns |-> 0,
                tool_results |-> 0, audit |-> <<>>, completed |-> 0,
                tool_in_flight |-> 0, model_in_flight |-> 0, extracts |-> 0]
    /\ UNCHANGED <<adapter, gemini>>

\* the ways the body of the scope can end in the state it is in: it returns,
\* an error of add_server or chat leaves it, or a cancellation does, at the
\* tool dispatch of chat or at the await at which add_server stopped
ExitPaths ==
    (IF pc \in {"idle", "done"} /\ lastOp = Idle THEN {"return"} ELSE {})
    \cup (IF \/ pc = "failed" /\ returned.error # "CancelledError"
             \/ lastOp.op = "add_server" /\ lastOp.outcome # "ok"
          THEN {"raise"} ELSE {})
    \cup (IF \/ pc = "failed" /\ returned.error = "CancelledError"
             \/ lastOp.op = "add_server" /\ lastOp.outcome # "ok"
          THEN {"cancel"} ELSE {})

\* a variant of __aexit__ that cleans up only when the body returned
AExitOnReturnOnly(path, stack) ==
    IF path = "return" THEN Aclose(stack)
    ELSE [exited |-> <<>>, stack |-> stack]

\* __aexit__(*args): await self.cleanup(), whatever the arguments say
AExit(path, stack) == Aclose(stack)

\* the body of `async with client:` ends and __aexit__ runs
ScopeExit ==
    \E path \in ExitPaths :
        /\ life.scope = "open"
        /\ life' = [life EXCEPT !.scope = "closed", !.path = path]
        /\ UNCHANGED chat2
        /\ released' = released \o AExit(path, exit_stack).exited
        /\ exit_stack' = AExit(path, exit_stack).stack
        /\ UNCHANGED <<sessions, sessOrder, tool_to_server, conns, registered,
                       lastOp>>

\* the invocation starts: the tool list of this moment is its snapshot
ChatStartInScope ==
    /\ ChatStart
    /\ life' = [life EXCEPT !.snapshot = GetAllToolsOf(Reg)]
    /\ UNCHANGED chat2

LifeNext ==
    \/ /\ life.scope = "open" /\ lastOp = Idle
       /\ \/ ChatStartInScope /\ UNCHANGED <<regVars, peerVars>>
          \/ /\ \/ ConvertToolsStep
                \/ CreateInitialStep
                \/ SendRequest
                \/ ReceiveResponse
                \/ ParseStep
                \/ AppendAssistantStep
                \/ DispatchStep
                \/ ToolReturn
                \/ AppendToolResultStep
                \/ FinalStep
             /\ UNCHANGED <<regVars, lifeVars, peerVars>>
    \/ AddServerInScope /\ UNCHANGED <<chatVars, peerVars>>
    \/ life.scope = "open" /\ Continue /\ UNCHANGED <<chatVars, lifeVars, peerVars>>
    \/ CancelAtDispatch /\ UNCHANGED <<regVars, lifeVars, peerVars>>
    \/ ChatAgain /\ UNCHANGED <<regVars, peerVars>>
    \/ ScopeExit /\ UNCHANGED <<chatVars, peerVars>>

\* a client's lifetime inside its scope
SpecLife == LifeInit /\ [][LifeNext]_vars

(***************************************************************************)
(* Two client instances in one event loop.  Each operation of the second   *)
(* instance runs while the first is idle or suspended; the second          *)
(* instance's chat is followed from suspension point to suspension point.  *)
(***************************************************************************)
\* a variant of __init__ in which the two dicts are class attributes, one
\* object for every instance
InstanceObjectsShared(c) ==
    [sessions |-> 1, tool_to_server |-> 1, exit_stack |-> c]

\* BaseMCPClient.__init__: the objects the attributes of instance c refer
\* to; each instance gets a new dict, a new dict and a new AsyncExitStack
InstanceObjects(c) == [sessions |-> c, tool_to_server |-> c, exit_stack |-> c]

\* the attribute refers to one and the same object in both instances
Aliased(attr) == InstanceObjects(1)[attr] = InstanceObjects(2)[attr]

\* the registry the second instance reads through its attributes; the
\* connections are numbered within the sessions dict that holds them
PeerReg ==
    [sessions |-> IF Aliased("sessions") THEN sessions ELSE peer.reg.sessions,
     sessOrder |-> IF Aliased("sessions") THEN sessOrder
                   ELSE peer.reg.sessOrder,
     tool_to_server |-> IF Aliased("tool_to_server") THEN tool_to_server
                        ELSE peer.reg.tool_to_server,
     exit_stack |-> IF Aliased("exit_stack") THEN exit_stack
                    ELSE peer.reg.exit_stack,
     conns |-> IF Aliased("sessions") THEN conns ELSE peer.reg.conns,
     registered |-> peer.reg.registered]

\* the second instance leaves its registry as r: what is stored in objects
\* of its own
PeerOwn(r) ==
    [sessions |-> IF Aliased("sessions") THEN peer.reg.sessions
                  ELSE r.sessions,
     sessOrder |-> IF Aliased("sessions") THEN peer.reg.sessOrder
                   ELSE r.sessOrder,
     tool_to_server |-> IF Aliased("tool_to_server")
                        THEN peer.reg.tool_to_server ELSE r.tool_to_server,
     exit_stack |-> IF Aliased("exit_stack") THEN peer.reg.exit_stack
                    ELSE r.exit_stack,
     conns |-> IF Aliased("sessions") THEN peer.reg.conns ELSE r.conns,
     registered |-> r.registered]

\* the second instance leaves its registry as r: what the first instance's
\* attributes refer to afterwards
FirstAfterPeer(r) ==
    /\ sessions' = IF Aliased("sessions") THEN r.sessions ELSE sessions
    /\ sessOrder' = IF Aliased("sessions") THEN r.sessOrder ELSE sessOrder
    /\ tool_to_server' = IF Aliased("tool_to_server") THEN r.tool_to_server
                         ELSE tool_to_server
    /\ exit_stack' = IF Aliased("exit_stack") THEN r.exit_stack
                     ELSE exit_stack
    /\ conns' = IF Aliased("sessions") THEN r.conns ELSE conns
    /\ UNCHANGED <<released, registered, lastOp>>

\* the second instance's chat is not running, or is suspended at its tool
\* dispatch
PeerSuspended == peer.pc \in {"idle", "done", "failed", "awaiting_tool"}

\* the points at which the event loop can run a step of the second instance
PeerTurn == ChatSuspended /\ lastOp = Idle /\ life.scope = "open"

\* await peer.add_server("A", ...): the name the first instance uses too;
\* once, before the second instance has entered any context
PeerAddServer ==
    \E b \in LifeBehaviours :
        /\ PeerTurn /\ PeerSuspended
        /\ PeerReg.exit_stack = <<>> /\ peer.released = <<>>
        /\ LET r == AddServerEffect(PeerReg, "A", b[1], b[2])
           IN  /\ peer' = [peer EXCEPT !.reg = PeerOwn(r)]
               /\ FirstAfterPeer(r)

\* await peer.cleanup()
PeerCleanup ==
    /\ PeerTurn /\ PeerSuspended
    /\ PeerReg.exit_stack # <<>>
    /\ LET r == [PeerReg EXCEPT !.exit_stack = Aclose(PeerReg.exit_stack).stack]
       IN  /\ peer' = [peer EXCEPT
                          !.reg = PeerOwn(r),
                          !.released = @ \o Aclose(PeerReg.exit_stack).exited]
           /\ FirstAfterPeer(r)

\* what the model answers to the second instance's first request: a text, or
\* a call of the tool
PeerCalls == {<<>>, <<"z">>, <<"x">>}

\* await peer.chat(...) up to its first suspension at a tool dispatch, or to
\* its end: the tool list is taken, the model is asked, and the tool it
\* names is looked up
PeerChatStart ==
    \E call \in PeerCalls :
        /\ PeerTurn
        /\ peer.pc = "idle"
        /\ LET tools == GetAllToolsOf(PeerReg)
               unrouted == /\ call # <<>>
                           /\ Resolve(PeerReg.tool_to_server, call[1]) = None
           IN  peer' = [peer EXCEPT
                   !.mcp_tools = tools,
                   !.requests = <<[tools |-> tools, carries |-> 0]>>,
                   !.tool = IF call = <<>> THEN "" ELSE call[1],
                   !.dispatched = IF unrouted
                                  THEN <<[tool |-> call[1], called |-> <<>>,
                                          outcome |-> "ToolNotFound"]>>
                                  ELSE <<>>,
                   !.pc = IF call = <<>> THEN "done"
                          ELSE IF unrouted THEN "failed" ELSE "awaiting_tool",
                   !.returned = IF call = <<>> THEN "text"
                                ELSE IF unrouted THEN "ToolNotFound"
                                ELSE "none"]
        /\ UNCHANGED regVars

\* the second instance's tool call ends: its result goes to the model, which
\* answers with a text, or the error ends the invocation
PeerToolReturn ==
    \E ok \in BOOLEAN :
        /\ PeerTurn
        /\ peer.pc = "awaiting_tool"
        /\ LET answer == ToolAnswer(ok, [tool |-> peer.tool, index |-> 1])
               res == ExecuteTool(PeerReg, 1, peer.tool, <<>>, answer)
           IN  peer' = [peer EXCEPT
                   !.dispatched = <<[tool |-> peer.tool, called |-> res.called,
                                     outcome |-> res.outcome]>>,
                   !.requests = IF res.outcome = "ok"
                                THEN Append(@, [tools |-> peer.mcp_tools,
                                                carries |-> 1])
                                ELSE @,
                   !.pc = IF res.outcome = "ok" THEN "done" ELSE "failed",
                   !.returned = IF res.outcome = "ok" THEN "text"
                                ELSE res.outcome]
        /\ UNCHANGED regVars

\* a step of the second instance
PeerNext ==
    \/ PeerAddServer /\ UNCHANGED <<chatVars, lifeVars>>
    \/ PeerCleanup /\ UNCHANGED <<chatVars, lifeVars>>
    \/ PeerChatStart /\ UNCHANGED <<chatVars, lifeVars>>
    \/ PeerToolReturn /\ UNCHANGED <<chatVars, lifeVars>>

\* a step of the first instance: of its chat, of the add_server of B that
\* succeeds while its chat is suspended at the tool dispatch, or of its
\* cleanup after its chat
FirstNext ==
    \/ /\ life.scope = "open" /\ lastOp = Idle
       /\ \/ ChatStart
          \/ ConvertToolsStep
          \/ CreateInitialStep
          \/ SendRequest
          \/ ReceiveResponse
          \/ ParseStep
          \/ AppendAssistantStep
          \/ DispatchStep
          \/ ToolReturn
          \/ AppendToolResultStep
          \/ FinalStep
       /\ UNCHANGED <<regVars, lifeVars, peerVars>>
    \/ /\ SuspendedAtDispatch
       /\ "B" \notin DOMAIN sessions
       /\ AddServerInScope
       /\ lastOp'.outcome = "ok"
       /\ UNCHANGED <<chatVars, peerVars>>
    \/ life.scope = "open" /\ Continue /\ UNCHANGED <<chatVars, lifeVars, peerVars>>
    \/ /\ pc \in {"done", "failed"}
       /\ Cleanup
       /\ UNCHANGED <<chatVars, lifeVars, peerVars>>

TwoNext == FirstNext \/ PeerNext

\* two instances: the first with server A registered, the second new
SpecTwo == LifeInit /\ [][TwoNext]_vars

(***************************************************************************)
(* Two chat invocations on one Gemini client in one event loop.  chat      *)
(* awaits at the tool-list query and at the tool dispatch only             *)
(* (base.py:200, 229; _send_message is a plain call), so an invocation     *)
(* runs from one of these awaits to the next while the other stays where   *)
(* it is.  The first invocation is followed statement by statement, the    *)
(* second from await to await.                                             *)
(***************************************************************************)
\* a variant that keeps a user input that is pending already
PendUserInputOnce(g, user_input) ==
    IF g.pending_user_input = <<>>
    THEN [g EXCEPT !.pending_user_input = user_input]
    ELSE g

\* self._pending_user_input = user_input   (gemini.py:119)
PendUserInput(g, user_input) == [g EXCEPT !.pending_user_input = user_input]

\* GeminiMCPClient._send_message on the client's fields g and the provider:
\* with no chat object it creates one and sends the pending user input,
\* otherwise it sends the pending tool response to the chat object there is
GeminiSendMessage(g, prov, tools) ==
    IF g.chat = 0
    THEN [gemini |-> [g EXCEPT !.chat = Len(prov.sessions) + 1],
          provider |->
              [sessions |-> Append(prov.sessions, [tools |-> tools]),
               requests |-> Append(prov.requests,
                   [session |-> Len(prov.sessions) + 1,
                    payload |-> g.pending_user_input,
                    tools |-> tools])]]
    ELSE [gemini |-> g,
          provider |-> [prov EXCEPT !.requests =
              Append(@, [session |-> g.chat,
                         payload |-> g.pending_tool_response,
                         tools |-> prov.sessions[g.chat].tools])]]

\* the first invocation is suspended at one of chat's awaits
FirstAtAwait == pc = "awaiting_tools" \/ SuspendedAtDispatch

\* the first invocation is suspended or has ended
FirstNotRunning == pc \in {"done", "failed"} \/ FirstAtAwait

\* GeminiMCPClient.chat stores the input and the base chat reaches
\* `await self.get_all_tools()`, where it is suspended
ChatEnter ==
    /\ pc = "idle"
    /\ gemini' = PendUserInput(gemini, UserInput)
    /\ pc' = "awaiting_tools"
    /\ UNCHANGED <<adapter, mcp_tools, llm_tools, messages, response, step,
                   call_count, result, returned, provider, hist>>

\* get_all_tools returns the tool list, or raises
ToolsReturn ==
    /\ pc = "awaiting_tools"
    /\ \E raises \in BOOLEAN :
          IF raises
          THEN Raise("get_all_tools") /\ UNCHANGED mcp_tools
          ELSE /\ mcp_tools' = GetAllToolsOf(Reg)
               /\ pc' = "convert"
               /\ UNCHANGED returned
    /\ UNCHANGED <<adapter, llm_tools, messages, response, step, call_count,
                   result, gemini, provider, hist>>

\* what the provider does with a request of the second invocation: the call
\* raises (<<>>), or it returns a response
Chat2Replies == {<<>>} \cup {<<r>> : r \in GeminiResponses}

\* the second invocation's llm_tools
Chat2Tools ==
    IF GetAllToolsOf(Reg) = <<>> THEN <<>>
    ELSE ConvertTools("gemini", GetAllToolsOf(Reg))

\* the second invocation ended with an error
Chat2Failed(c) == [c EXCEPT !.pc = "failed"]

\* the second invocation from the return of _send_message to its next await
\* or its end: the response is parsed; without a tool call
\* _get_final_response resets _chat and chat returns; with one the call is
\* counted and dispatched, and call_tool raises at once for a tool that has
\* no route
Chat2AfterSend(g, c, reply) ==
    IF reply = <<>> \/ GeminiParse(reply[1]).raises
    THEN [gemini |-> g, chat2 |-> Chat2Failed(c)]
    ELSE LET st == GeminiParse(reply[1]).step[1]
         IN  IF AfterParse(st) = "final"
             THEN [gemini |-> [g EXCEPT !.chat = 0],
                   chat2 |-> [c EXCEPT !.pc = "done"]]
             ELSE LET counted == [c EXCEPT !.call_count = NextCallCount(@),
                                           !.tool = st.tool_call[1].name]
                  IN  IF Resolve(tool_to_server, st.tool_call[1].name) = None
                      THEN [gemini |-> g, chat2 |-> Chat2Failed(counted)]
                      ELSE [gemini |-> g,
                            chat2 |-> [counted EXCEPT !.pc = "awaiting_tool"]]

\* the second invocation sends a request: the request and, when it created
\* one, the session are noted as its own
Chat2Send(g, c, reply) ==
    LET sent == GeminiSendMessage(g, provider, Chat2Tools)
        noted == [c EXCEPT
                     !.sent = @ \cup {Len(provider.requests) + 1},
                     !.created = IF g.chat = 0
                                 THEN @ \cup {Len(provider.sessions) + 1}
                                 ELSE @]
    IN  [provider |-> sent.provider,
         after |-> Chat2AfterSend(sent.gemini, noted, reply)]

\* chat is called a second time on the client while the first invocation
\* is suspended: the input is stored and the call is suspended at
\* `await self.get_all_tools()`
Chat2Enter ==
    /\ chat2.pc = "idle"
    /\ FirstAtAwait
    /\ gemini' = PendUserInput(gemini, NextUserInput)
    /\ chat2' = [chat2 EXCEPT !.pc = "awaiting_tools",
                              !.entered = <<Len(provider.requests)>>]
    /\ UNCHANGED <<adapter, pc, mcp_tools, llm_tools, messages, response,
                   step, call_count, result, returned, provider, hist>>

\* get_all_tools returns to the second invocation, which goes on to its
\* first request and to its next await
Chat2ToolsReturn ==
    /\ chat2.pc = "awaiting_tools"
    /\ FirstNotRunning
    /\ \E raises \in BOOLEAN, reply \in Chat2Replies :
          IF raises
          THEN /\ chat2' = Chat2Failed(chat2)
               /\ UNCHANGED <<gemini, provider>>
          ELSE LET run == Chat2Send(gemini, chat2, reply)
               IN  /\ provider' = run.provider
                   /\ gemini' = run.after.gemini
                   /\ chat2' = run.after.chat2
    /\ UNCHANGED <<adapter, pc, mcp_tools, llm_tools, messages, response,
                   step, call_count, result, returned, hist>>

\* the tool server's result of a dispatch of the second invocation
Chat2Result == [content |-> [tool |-> chat2.tool, index |-> chat2.call_count,
                             invocation |-> 2]]

\* execute_tool returns to the second invocation, or raises; the result is
\* stored as the pending tool response and the next request is sent
Chat2ToolReturn ==
    /\ chat2.pc = "awaiting_tool"
    /\ FirstNotRunning
    /\ Cardinality(chat2.sent) < MaxSends
    /\ \E ok \in BOOLEAN, reply \in Chat2Replies :
          IF ~ok
          THEN /\ chat2' = Chat2Failed(chat2)
               /\ UNCHANGED <<gemini, provider>>
          ELSE LET pended == PendToolResult("gemini", gemini,
                                 ToolCallInfo(chat2.tool, <<>>, <<>>),
                                 Chat2Result)
                   noted == [chat2 EXCEPT !.stored =
                                @ \cup {pended.pending_tool_response}]
                   run == Chat2Send(pended, noted, reply)
               IN  /\ provider' = run.provider
                   /\ gemini' = run.after.gemini
                   /\ chat2' = run.after.chat2
    /\ UNCHANGED <<adapter, pc, mcp_tools, llm_tools, messages, response,
                   step, call_count, result, returned, hist>>

\* the first invocation stores a tool result: noted as its own
FirstAppendToolResult ==
    /\ AppendToolResultStep
    /\ chat2' = IF pc' = "failed" THEN chat2
                ELSE [chat2 EXCEPT !.stored1 =
                         @ \cup {gemini'.pending_tool_response}]
    /\ UNCHANGED life

OverlapInit ==
    /\ ChatNotStarted
    /\ adapter = "gemini"
    /\ life = NoLife
    /\ lastOp = Idle
    /\ released = <<>>
    /\ sessions = RegA.sessions
    /\ sessOrder = RegA.sessOrder
    /\ tool_to_server = RegA.tool_to_server
    /\ exit_stack = RegA.exit_stack
    /\ conns = RegA.conns
    /\ registered = RegA.registered

OverlapNext ==
    \/ ChatEnter /\ UNCHANGED <<regVars, lifeVars, peerVars>>
    \/ ToolsReturn /\ UNCHANGED <<regVars, lifeVars, peerVars>>
    \/ ConvertToolsStep /\ UNCHANGED <<regVars, lifeVars, peerVars>>
    \/ CreateInitialStep /\ UNCHANGED <<regVars, lifeVars, peerVars>>
    \/ SendRequest /\ UNCHANGED <<regVars, lifeVars, peerVars>>
    \/ ReceiveResponse /\ UNCHANGED <<regVars, lifeVars, peerVars>>
    \/ ParseStep /\ UNCHANGED <<regVars, lifeVars, peerVars>>
    \/ AppendAssistantStep /\ UNCHANGED <<regVars, lifeVars, peerVars>>
    \/ DispatchStep /\ UNCHANGED <<regVars, lifeVars, peerVars>>
    \/ ToolReturn /\ UNCHANGED <<regVars, lifeVars, peerVars>>
    \/ FirstAppendToolResult /\ UNCHANGED <<regVars, peerVars>>
    \/ FinalStep /\ UNCHANGED <<regVars, lifeVars, peerVars>>
    \/ Chat2Enter /\ UNCHANGED <<regVars, life, peerVars>>
    \/ Chat2ToolsReturn /\ UNCHANGED <<regVars, life, peerVars>>
    \/ Chat2ToolReturn /\ UNCHANGED <<regVars, life, peerVars>>

\* a Gemini client with server A registered, on which chat is called and,
\* while that call is suspended, called again
SpecOverlap == OverlapInit /\ [][OverlapNext]_vars

(***************************************************************************)
(* Properties of the registry and the router (specification Spec).         *)
(***************************************************************************)
\* the name given by the latest add_server call that returned normally and
\* whose server advertised `tool`; None when there is none
RECURSIVE LastAdvertiser(_, _)
LastAdvertiser(regs, tool) ==
    IF regs = <<>> THEN None
    ELSE IF tool \in Range(regs[Len(regs)].tools) THEN regs[Len(regs)].name
    ELSE LastAdvertiser(SubSeq(regs, 1, Len(regs) - 1), tool)

RegisteredAThenB ==
    registered = <<[name |-> "A", tools |-> <<"x", "y">>],
                   [name |-> "B", tools |-> <<"y", "z">>]>>

\* C1: after any sequence of add_server calls, resolving a tool name gives
\* the name of the most recently registered server that advertised the tool
\* (no owner when no registered server advertised it); with A {x, y} and then
\* B {y, z} registered, y and z resolve to B and x to A.
C1_ResolveLastRegistered ==
    /\ \A tool \in ToolNames \cup {UnknownTool} :
          Resolve(tool_to_server, tool) = LastAdvertiser(registered, tool)
    /\ RegisteredAThenB =>
          /\ Resolve(tool_to_server, "y") = "B"
          /\ Resolve(tool_to_server, "x") = "A"
          /\ Resolve(tool_to_server, "z") = "B"

C1_Witness ==
    /\ RegisteredAThenB
    /\ Resolve(tool_to_server, "y") = "B"
    /\ Resolve(tool_to_server, "x") = "A"

\* C2: a dispatch of a tool name that has no routing entry fails with the
\* tool-not-found error and calls no connection, whether it goes through
\* call_tool or through the audit wrapper execute_tool.
C2_UnroutedDispatchFails ==
    (lastOp.op = "dispatch" /\ lastOp.tool \notin DOMAIN tool_to_server)
        => /\ lastOp.res.outcome = "ToolNotFound"
           /\ lastOp.res.called = <<>>

C2_Witness ==
    /\ lastOp.op = "dispatch"
    /\ lastOp.audited
    /\ lastOp.tool \notin DOMAIN tool_to_server
    /\ DOMAIN sessions = ServerNames
    /\ lastOp.res.outcome = "ToolNotFound"

\* the descriptors of a configuration mapping have pairwise distinct names
DistinctNames(descs) ==
    \A i, j \in 1..Len(descs) : descs[i] = descs[j] => i = j

\* the tool lists the loaded servers advertise are pairwise disjoint
DisjointTools(behav) ==
    \A i, j \in DOMAIN behav :
        i # j => Range(behav[i][1]) \cap Range(behav[j][1]) = {}

RECURSIVE SumOfTools(_)
SumOfTools(behav) ==
    IF behav = <<>> THEN 0
    ELSE Len(Head(behav)[1]) + SumOfTools(Tail(behav))

\* a load of a configuration whose servers all connected, into a new client
LoadedAllFromEmpty ==
    /\ lastOp.op = "load"
    /\ lastOp.ok
    /\ lastOp.pre = EmptyReg
    /\ DistinctNames(lastOp.descs)

\* C10: from an empty registry, loading a configuration of N descriptors
\* (distinct names) whose servers all connect leaves exactly N registered
\* connections; the routing table has as many entries as the servers
\* advertise tools when their tool names are disjoint, and a tool two servers
\* advertise is routed to the later one of the list.
C10_LoadRegistersAll ==
    LoadedAllFromEmpty =>
        /\ DOMAIN sessions = Range(lastOp.descs)
        /\ Cardinality(DOMAIN sessions) = Len(lastOp.descs)
        /\ \A n \in DOMAIN sessions, m \in DOMAIN sessions :
              sessions[n] = sessions[m] => n = m
        /\ DisjointTools(lastOp.behav) =>
              Cardinality(DOMAIN tool_to_server) = SumOfTools(lastOp.behav)
        /\ \A i \in 1..Len(lastOp.descs) :
              \A tool \in Range(lastOp.behav[i][1]) :
                  (\A j \in (i + 1)..Len(lastOp.descs) :
                        tool \notin Range(lastOp.behav[j][1]))
                     => tool_to_server[tool] = lastOp.descs[i]

C10_Witness ==
    /\ LoadedAllFromEmpty
    /\ Len(lastOp.descs) = 2
    /\ ~DisjointTools(lastOp.behav)
    /\ Cardinality(DOMAIN tool_to_server) = 3
    /\ Cardinality(DOMAIN sessions) = 2


\* the server entries of the mapping a configuration source holds, in the
\* mapping's order (none for an MCPConfig object and for a source that does
\* not resolve)
MappingOf(config) ==
    IF config.kind = "dict" THEN Get(config.data.mcpServers, <<>>)
    ELSE IF config.kind = "MCPConfig" THEN <<>>
    ELSE IF config.kind = "str" /\ config.brace
    THEN IF config.parsed = <<>> THEN <<>>
         ELSE Get(config.parsed[1].mcpServers, <<>>)
    ELSE IF config.file = <<>> THEN <<>>
    ELSE IF config.file[1].parsed = <<>> THEN <<>>
    ELSE Get(config.file[1].parsed[1].mcpServers, <<>>)

\* a load whose configuration was resolved, so that the loop ran
LoadRan == lastOp.op = "load" /\ lastOp.resolves

\* C11: load_servers_from_config calls add_server once per descriptor, in the
\* list's order (up to a call that fails), each call with the descriptor's
\* name, url, transport and headers; a descriptor made without transport or
\* headers is passed on with SSE and the empty mapping.
C11_LoadCallsInOrder ==
    LoadRan =>
        /\ Len(lastOp.calls) = lastOp.attempts
        /\ lastOp.attempts <= Len(lastOp.servers)
        /\ lastOp.ok => Len(lastOp.calls) = Len(lastOp.servers)
        /\ \A i \in 1..Len(lastOp.calls) :
              /\ lastOp.calls[i].name = lastOp.servers[i].name
              /\ lastOp.calls[i].url = lastOp.servers[i].url
              /\ lastOp.calls[i].transport = lastOp.servers[i].transport
              /\ lastOp.calls[i].headers = lastOp.servers[i].headers
              /\ Len(MappingOf(lastOp.source)) >= i =>
                    LET entry == MappingOf(lastOp.source)[i][2]
                    IN  /\ lastOp.calls[i].name = MappingOf(lastOp.source)[i][1]
                        /\ entry.headers = <<>> =>
                              lastOp.calls[i].headers = <<>>
                        /\ entry.headers # <<>> =>
                              lastOp.calls[i].headers = entry.headers[1]
                        /\ entry.transport = <<>> =>
                              lastOp.calls[i].transport = "sse"
                        /\ entry.url # <<>> =>
                              lastOp.calls[i].url = entry.url[1]
        /\ (lastOp.source.kind = "MCPConfig" /\ Len(lastOp.calls) >= 1) =>
              lastOp.calls[1] = [name |-> "A", url |-> "http://a/sse",
                                 transport |-> "sse", headers |-> <<>>]
        /\ (lastOp.source.kind = "MCPConfig" /\ Len(lastOp.calls) = 2) =>
              lastOp.calls[2] = [name |-> "A", url |-> "http://a/mcp",
                                 transport |-> "http", headers |-> AuthHeaders]

C11_Witness ==
    /\ LoadRan
    /\ lastOp.ok
    /\ lastOp.source.kind = "dict"
    /\ Len(lastOp.calls) = 2
    /\ lastOp.calls[1] = [name |-> "A", url |-> "http://a/mcp",
                          transport |-> "http", headers |-> AuthHeaders]
    /\ lastOp.calls[2] = [name |-> "B", url |-> "http://b/sse",
                          transport |-> "sse", headers |-> <<>>]

\* the index of the first descriptor whose add_server raises
FirstFailure(behav) ==
    CHOOSE i \in 1..Len(behav) :
        /\ behav[i][2] # "ok"
        /\ \A j \in 1..(i - 1) : behav[j][2] = "ok"

\* a load (of descriptors with distinct names) one of whose servers failed
LoadFailedAtServer ==
    /\ LoadRan
    /\ \E i \in 1..Len(lastOp.behav) : lastOp.behav[i][2] # "ok"
    /\ DistinctNames(lastOp.descs)

\* C12: when add_server raises for descriptor k, the load raises that error,
\* add_server was called for descriptors 1..k and for none after k, and the
\* servers 1..k-1 stay registered: their connections are in the map and held
\* open, and the routing table is the one before the load with their tools
\* added.
C12_LoadStopsAtFailure ==
    LoadFailedAtServer =>
        LET k == FirstFailure(lastOp.behav)
            loaded == [i \in 1..(k - 1) |->
                          [name |-> lastOp.descs[i],
                           tools |-> lastOp.behav[i][1]]]
        IN  /\ ~lastOp.ok
            /\ lastOp.error = lastOp.behav[k][2]
            /\ lastOp.attempts = k
            /\ Len(lastOp.calls) = k
            /\ Len(conns) = Len(lastOp.pre.conns) + (k - 1)
                              + (IF lastOp.error = "transport" THEN 0 ELSE 1)
            /\ registered = lastOp.pre.registered \o loaded
            /\ \A i \in 1..(k - 1) :
                  LET id == Len(lastOp.pre.conns) + i
                  IN  /\ lastOp.descs[i] \in DOMAIN sessions
                      /\ sessions[lastOp.descs[i]] = id
                      /\ conns[id].name = lastOp.descs[i]
                      /\ conns[id].tools = lastOp.behav[i][1]
                      /\ Ctx("transport", id) \in Range(exit_stack)
                      /\ Ctx("session", id) \in Range(exit_stack)
                      /\ Ctx("transport", id) \notin Range(released)
                      /\ Ctx("session", id) \notin Range(released)
            /\ \A tool \in ToolNames :
                  Resolve(tool_to_server, tool) =
                      LastAdvertiser(lastOp.pre.registered \o loaded, tool)

C12_Witness ==
    /\ LoadFailedAtServer
    /\ FirstFailure(lastOp.behav) = 2
    /\ lastOp.error = "handshake"
    /\ DOMAIN sessions = {lastOp.descs[1]}
    /\ DOMAIN tool_to_server # {}

\* a configuration source that cannot be resolved: a path (a Path, or a
\* string that does not start with "{") of no file or of a file that is not
\* JSON, or a string starting with "{" that is not JSON
Unresolvable(config) ==
    \/ /\ config.kind = "Path" \/ (config.kind = "str" /\ ~config.brace)
       /\ \/ config.file = <<>>
          \/ config.file[1].parsed = <<>>
    \/ /\ config.kind = "str"
       /\ config.brace
       /\ config.parsed = <<>>

\* C19: a load whose configuration source cannot be resolved raises, calls
\* add_server for no descriptor and leaves the registry as it was.
C19_UnresolvedLoadsNothing ==
    (lastOp.op = "load" /\ Unresolvable(lastOp.source)) =>
        /\ ~lastOp.ok
        /\ lastOp.error \in {"FileNotFoundError", "JSONDecodeError"}
        /\ lastOp.servers = <<>>
        /\ lastOp.calls = <<>>
        /\ lastOp.attempts = 0
        /\ Reg = lastOp.pre

C19_Witness ==
    /\ lastOp.op = "load"
    /\ lastOp.source.kind = "str"
    /\ ~lastOp.source.brace
    /\ lastOp.source.file = <<>>
    /\ lastOp.error = "FileNotFoundError"
    /\ DOMAIN sessions = {"A"}
    /\ Reg = lastOp.pre

\* a transport value that is "http" in any letter case
IsHttpAnyCase(value) ==
    /\ Len(value) = 4
    /\ value[1] \in {"h", "H"}
    /\ value[2] \in {"t", "T"}
    /\ value[3] \in {"t", "T"}
    /\ value[4] \in {"p", "P"}

\* a load whose configuration came from a mapping
LoadedMapping == LoadRan /\ lastOp.source.kind # "MCPConfig"

\* headers, timeout and number of descriptors as C20 states them
DescriptorDefaults ==
    /\ Len(lastOp.servers) = Len(MappingOf(lastOp.source))
    /\ \A i \in 1..Len(lastOp.servers) :
          LET entry == MappingOf(lastOp.source)[i][2]
          IN  /\ lastOp.servers[i].name = MappingOf(lastOp.source)[i][1]
              /\ lastOp.servers[i].transport \in {"sse", "http"}
              /\ lastOp.servers[i].headers =
                    (IF entry.headers = <<>> THEN <<>> ELSE entry.headers[1])
              /\ lastOp.servers[i].timeout =
                    (IF entry.timeout = <<>> THEN 30 ELSE entry.timeout[1])

EnteredContexts ==
    {Ctx("transport", id) : id \in 1..Len(conns)}
        \cup {Ctx("session", id) :
                 id \in {j \in 1..Len(conns) : conns[j].outcome # "session"}}

NoDuplicates(seq) == \A i, j \in 1..Len(seq) : seq[i] = seq[j] => i = j

\* C13: cleanup releases what is held and nothing else; a cleanup called when
\* everything was released already (a second cleanup) releases nothing, and
\* over any number of cleanup calls every context is released at most once.
C13_CleanupIdempotent ==
    /\ NoDuplicates(released)
    /\ Range(released) \subseteq EnteredContexts
    /\ lastOp.op = "cleanup" =>
          /\ exit_stack = <<>>
          /\ Range(released) = EnteredContexts
          /\ Len(released) = lastOp.before + lastOp.exited
          /\ lastOp.before = Cardinality(EnteredContexts) => lastOp.exited = 0

C13_Witness ==
    /\ lastOp.op = "cleanup"
    /\ lastOp.before = 4
    /\ lastOp.exited = 0
    /\ Len(released) = 4
    /\ Cardinality(DOMAIN sessions) = 2

\* the contexts add_server has entered, in the order it entered them
RECURSIVE AcquiredOrder(_)
AcquiredOrder(cs) ==
    IF cs = <<>> THEN <<>>
    ELSE AcquiredOrder(SubSeq(cs, 1, Len(cs) - 1))
           \o <<Ctx("transport", Len(cs))>>
           \o (IF cs[Len(cs)].outcome = "session" THEN <<>>
               ELSE <<Ctx("session", Len(cs))>>)

\* add_server has just stored a connection under a name that had one
ReAdded ==
    /\ lastOp.op = "add_server"
    /\ lastOp.outcome \in {"list", "ok"}
    /\ lastOp.name \in DOMAIN lastOp.pre.sessions

\* C24: re-adding a registered name stores the new connection under it and
\* releases nothing at that moment: the contexts of the old connection stay
\* on the exit stack.  cleanup releases the contexts of every connection
\* add_server has opened and that are still held, also those of replaced
\* connections and of add_server calls that failed, newest first, so that
\* over the client's life each is released exactly once.
C24_ReAddLeavesOldToCleanup ==
    /\ ReAdded =>
          /\ sessions[lastOp.name] = Len(conns)
          /\ sessions[lastOp.name] # lastOp.pre.sessions[lastOp.name]
          /\ Len(released) = lastOp.before
          /\ SubSeq(exit_stack, 1, Len(lastOp.pre.exit_stack))
                = lastOp.pre.exit_stack
          /\ \A c \in Range(lastOp.pre.exit_stack) : c \notin Range(released)
    /\ lastOp.op = "cleanup" =>
          /\ exit_stack = <<>>
          /\ Range(released) = EnteredContexts
          /\ NoDuplicates(released)
          /\ SubSeq(released, lastOp.before + 1, Len(released))
                = Reverse(SubSeq(AcquiredOrder(conns), lastOp.before + 1,
                                 Len(AcquiredOrder(conns))))

\* A is added, added again, and cleanup releases both connections, the
\* replaced one last
C24_Witness ==
    /\ lastOp.op = "cleanup"
    /\ Len(conns) = 2
    /\ conns[1].name = "A" /\ conns[2].name = "A"
    /\ conns[1].outcome = "ok" /\ conns[2].outcome = "ok"
    /\ sessions["A"] = 2
    /\ lastOp.before = 0
    /\ released = <<Ctx("session", 2), Ctx("transport", 2),
                    Ctx("session", 1), Ctx("transport", 1)>>

\* C25: the connection map has one connection per server name and the
\* routing table one owner per tool name, every owner in the routing table
\* is a name of the connection map, and so the dispatch of a routed tool
\* finds its connection: it reaches the connection stored under the owner
\* and ends as that server's answer says.
C25_OwnersAreRegistered ==
    /\ NoDuplicates(sessOrder)
    /\ Range(sessOrder) = DOMAIN sessions
    /\ \A n \in DOMAIN sessions : sessions[n] \in 1..Len(conns)
    /\ \A t \in DOMAIN tool_to_server : tool_to_server[t] \in DOMAIN sessions
    /\ (lastOp.op = "dispatch" /\ lastOp.tool \in DOMAIN tool_to_server) =>
          /\ lastOp.res.outcome = IF lastOp.answer.ok THEN "ok" ELSE "ToolError"
          /\ Len(lastOp.res.called) = 1
          /\ lastOp.res.called[1].conn = sessions[tool_to_server[lastOp.tool]]

\* A is registered with tool x and added again with a tool-list query that
\* fails; the dispatch of x finds the connection stored last under A
C25_Witness ==
    /\ lastOp.op = "dispatch"
    /\ lastOp.tool = "x"
    /\ Len(conns) = 2
    /\ conns[1].name = "A" /\ conns[1].outcome = "ok"
    /\ conns[2].name = "A" /\ conns[2].outcome = "list"
    /\ Resolve(tool_to_server, "x") = "A"
    /\ lastOp.res.called[1].conn = 2

\* C27: an add_server call that fails, at whatever await, leaves the
\* connection map and the routing table as they were before the call.
C27_FailedAddChangesNothing ==
    (lastOp.op = "add_server" /\ lastOp.outcome # "ok") =>
        /\ sessions = lastOp.pre.sessions
        /\ tool_to_server = lastOp.pre.tool_to_server

\* C27 for the failures before the connection is stored: at the transport,
\* at the session and at the handshake
C27_EarlyFailureChangesNothing ==
    (lastOp.op = "add_server"
       /\ lastOp.outcome \in {"transport", "session", "handshake"}) =>
        /\ sessions = lastOp.pre.sessions
        /\ tool_to_server = lastOp.pre.tool_to_server

\* C28: every routing entry tool -> server is for a tool that the connection
\* now stored under that server name advertised when it was registered.
C28_RoutesNameAdvertisedTools ==
    \A t \in DOMAIN tool_to_server :
        t \in Range(conns[sessions[tool_to_server[t]]].tools)

\* C29: the tools get_all_tools returns, which chat declares to the model,
\* are all keys of the routing table, also when a server answers with
\* another tool list than at its registration.
C29_DeclaredToolsAreRouted ==
    (lastOp.op = "get_all_tools" /\ lastOp.ok) =>
        Range(lastOp.tools) \subseteq DOMAIN tool_to_server

\* C29 while every server answers as it did when it was registered
C29_UnchangedToolsAreRouted ==
    (lastOp.op = "get_all_tools" /\ lastOp.answers = RegisteredAnswers(Reg)) =>
        Range(lastOp.tools) \subseteq DOMAIN tool_to_server

\* the connections of which cleanup has released a context
ReleasedConns == {released[i].conn : i \in 1..Len(released)}

\* the connections the last operation invoked: call_tool on one, or
\* list_tools on each session get_all_tools asked
InvokedConns ==
    IF lastOp.op = "dispatch"
    THEN {lastOp.res.called[i].conn : i \in 1..Len(lastOp.res.called)}
    ELSE IF lastOp.op = "get_all_tools" THEN Range(lastOp.queried)
    ELSE {}

\* C31: no operation invokes a released connection: a tool dispatch or a
\* tool-list query never calls call_tool or list_tools on a connection that
\* cleanup released, and the connection map holds no released connection.
C31_NoCallOnReleased ==
    /\ InvokedConns \cap ReleasedConns = {}
    /\ \A n \in DOMAIN sessions : sessions[n] \notin ReleasedConns

\* C31, the part that holds: an operation invokes only connections of the
\* connection map, so a released connection is invoked because it is
\* still stored there
C31_InvokedAreStored ==
    InvokedConns \subseteq {sessions[n] : n \in DOMAIN sessions}

\* a dispatch after cleanup calls a released connection, and so does
\* a tool-list query
C31_DispatchOnReleased ==
    /\ lastOp.op = "dispatch"
    /\ lastOp.res.called # <<>>
    /\ InvokedConns \subseteq ReleasedConns

C31_QueryOnReleased ==
    /\ lastOp.op = "get_all_tools"
    /\ lastOp.queried # <<>>
    /\ InvokedConns \subseteq ReleasedConns

\* whether add_server stored the connection in self.sessions
Stored(conn) == conn.outcome \in {"list", "ok"}

\* the names of the stored connections, each at the place of its first one
RECURSIVE FirstStoredOrder(_)
FirstStoredOrder(cs) ==
    IF cs = <<>> THEN <<>>
    ELSE LET before == FirstStoredOrder(SubSeq(cs, 1, Len(cs) - 1))
             last == cs[Len(cs)]
         IN  IF Stored(last) /\ last.name \notin Range(before)
             THEN Append(before, last.name) ELSE before

\* the connection stored last under a name
CurrentConnection(name) ==
    CHOOSE id \in 1..Len(conns) :
        /\ conns[id].name = name
        /\ Stored(conns[id])
        /\ \A j \in (id + 1)..Len(conns) :
              ~(conns[j].name = name /\ Stored(conns[j]))

RECURSIVE Flatten(_)
Flatten(lists) ==
    IF lists = <<>> THEN <<>> ELSE Head(lists) \o Flatten(Tail(lists))

\* C17: get_all_tools asks the connection of every server name in the map
\* once, in the order the names were first registered, and returns the
\* answers of this call concatenated in that order, each in the server's own
\* order, also when a server answers differently than when it was registered;
\* an answer that raises ends the call with no result.
C17_GetAllToolsConcatenates ==
    lastOp.op = "get_all_tools" =>
        LET order == FirstStoredOrder(conns)
            asked == [i \in 1..Len(order) |-> CurrentConnection(order[i])]
        IN  /\ Len(lastOp.answers) = Len(order)
            /\ NoDuplicates(lastOp.queried)
            /\ lastOp.ok =>
                  /\ lastOp.queried = asked
                  /\ Range(lastOp.queried) = {sessions[n] : n \in DOMAIN sessions}
                  /\ lastOp.tools =
                        Flatten([i \in 1..Len(order) |-> lastOp.answers[i].tools])
            /\ ~lastOp.ok =>
                  /\ lastOp.tools = <<>>
                  /\ \E k \in 1..Len(order) :
                        /\ ~lastOp.answers[k].ok
                        /\ \A j \in 1..(k - 1) : lastOp.answers[j].ok
                        /\ lastOp.queried = SubSeq(asked, 1, k)

C17_Witness ==
    /\ lastOp.op = "get_all_tools"
    /\ lastOp.ok
    /\ registered = <<[name |-> "B", tools |-> <<"y", "z">>],
                      [name |-> "A", tools |-> <<"x", "y">>]>>
    /\ lastOp.answers[1].tools = ChangedTools
    /\ lastOp.tools = <<"z", "x", "x", "y">>
    /\ lastOp.queried = <<1, 2>>

\* what a dispatch of lastOp.tool with lastOp.arguments has to do, given
\* the routing table, the connection map and the tool server's answer
ExpectedOutcome ==
    IF lastOp.tool \notin DOMAIN tool_to_server THEN "ToolNotFound"
    ELSE IF lastOp.answer.ok THEN "ok" ELSE "ToolError"

ExpectedCalls ==
    IF lastOp.tool \notin DOMAIN tool_to_server THEN <<>>
    ELSE <<[conn |-> sessions[tool_to_server[lastOp.tool]],
            tool |-> lastOp.tool, arguments |-> lastOp.arguments]>>

\* C15: the audited dispatch does what the plain dispatch does: it forwards
\* the tool name and the arguments once, to the connection the router names;
\* it returns the tool's result as it is; and when the dispatch raises it
\* logs the error under the call index and raises the same error, returning
\* no value.
C15_AuditedAsPlain ==
    lastOp.op = "dispatch" =>
        /\ lastOp.res.outcome = ExpectedOutcome
        /\ lastOp.res.called = ExpectedCalls
        /\ lastOp.res.value =
              (IF ExpectedOutcome = "ok"
               THEN <<[content |-> lastOp.answer.content]>> ELSE <<>>)
        /\ lastOp.audited =>
              lastOp.res.logged =
                  <<[index |-> 1,
                     kind |-> IF ExpectedOutcome = "ok" THEN "result"
                              ELSE "error"]>>

C15_Witness ==
    /\ lastOp.op = "dispatch"
    /\ lastOp.audited
    /\ RegisteredAThenB
    /\ lastOp.tool = "y"
    /\ lastOp.arguments # <<>>
    /\ ~lastOp.answer.ok
    /\ lastOp.res.outcome = "ToolError"
    /\ lastOp.res.called = <<[conn |-> 2, tool |-> "y",
                              arguments |-> lastOp.arguments]>>
    /\ lastOp.res.logged = <<[index |-> 1, kind |-> "error"]>>

(***************************************************************************)
(* Properties of one chat invocation (specification SpecChat).             *)
(***************************************************************************)
\* the index of the tool result that a model request after the first carries
\* as its latest entry (0 when it carries none there): the last message of
\* OpenAI's list, the function response Gemini sends
CarriedResult(req) ==
    IF req.payload = <<>> THEN 0
    ELSE IF adapter = "openai"
    THEN IF req.payload[Len(req.payload)].role = "tool"
         THEN req.payload[Len(req.payload)].content.index ELSE 0
    ELSE req.payload[1].response.index

\* C3: the i-th tool call has completed and its result is folded into the
\* conversation before request i+1 is sent, request i+1 carries that result,
\* and never are two dispatches, or a dispatch and a model request, in flight
\* together.
C3_SequentialLoop ==
    /\ hist.tool_in_flight + hist.model_in_flight <= 1
    /\ \A i \in 1..Len(hist.sends) :
          /\ hist.sends[i].dispatched = i - 1
          /\ hist.sends[i].completed = i - 1
          /\ hist.sends[i].folded = i - 1
          /\ hist.sends[i].tool_in_flight = 0
    /\ \A i \in 1..Len(hist.audit) :
          /\ hist.audit[i].model_in_flight = 0
          /\ hist.audit[i].sends = i
    /\ Len(provider.requests) = Len(hist.sends)
    /\ \A i \in 2..Len(provider.requests) :
          CarriedResult(provider.requests[i]) = i - 1

C3_Witness ==
    /\ Len(hist.sends) = 3
    /\ hist.tool_results = 2
    /\ pc = "awaiting_model"
    /\ CarriedResult(provider.requests[3]) = 2

\* C4: the k tool calls of an invocation take exactly k send/parse round
\* trips, the i-th call being dispatched after exactly i of them, and the
\* invocation returns after the one further round trip whose step has no
\* tool call.
C4_RoundTrips ==
    /\ \A i \in 1..Len(hist.audit) :
          /\ hist.audit[i].sends = i
          /\ hist.audit[i].parses = i
    /\ pc = "done" =>
          /\ Len(hist.audit) = call_count
          /\ Len(hist.sends) = call_count + 1
          /\ Len(hist.parses) = call_count + 1
          /\ Len(provider.requests) = call_count + 1
          /\ \A i \in 1..call_count : hist.parses[i] = "tool_call"
          /\ hist.parses[call_count + 1] = "answer"

C4_Witness ==
    /\ pc = "done"
    /\ call_count = 2
    /\ Len(hist.sends) = 3

\* C5: the call indices passed to execute_tool, and the ones its audit log
\* records, are 1, 2, ..., k in this order, also when a dispatch fails.
C5_CallIndices ==
    /\ Len(hist.audit) = call_count
    /\ \A i \in 1..Len(hist.audit) :
          /\ hist.audit[i].index = i
          /\ hist.audit[i].logged # <<>> => hist.audit[i].logged[1].index = i

C5_Witness ==
    /\ Len(hist.audit) = 2
    /\ hist.audit[1].outcome = "ok"
    /\ hist.audit[2].outcome = "ToolError"
    /\ hist.audit[2].logged # <<>>

\* C6: when the first parsed step has no tool call, the invocation makes one
\* send and one parse, dispatches nothing, appends nothing to the
\* conversation and returns the text extracted from that response.
C6_NoToolCall ==
    (hist.parses # <<>> /\ hist.parses[1] = "answer") =>
        /\ Len(hist.sends) = 1
        /\ Len(provider.requests) = 1
        /\ Len(hist.parses) = 1
        /\ hist.audit = <<>>
        /\ call_count = 0
        /\ hist.assistant_turns = 0
        /\ hist.tool_results = 0
        /\ messages = CreateInitialMessages(adapter, UserInput)
        /\ gemini.pending_tool_response = <<>>
        /\ pc \in {"final", "done", "failed"}
        /\ pc = "done" =>
              returned = [kind |-> "value",
                          text |-> GetFinalResponse(adapter, response)]
        /\ pc = "failed" => returned.error = "extract_final_text"

C6_Witness ==
    /\ hist.parses = <<"answer">>
    /\ pc = "done"
    /\ returned.kind = "value"
    /\ returned.text # <<>>

ToolMessages(msgs) == {i \in 1..Len(msgs) : msgs[i].role = "tool"}

Malformed(ad, resp) ==
    IF ad = "openai"
    THEN \/ resp.choices = <<>>
         \/ /\ resp.choices[1].tool_calls # <<>>
            /\ resp.choices[1].tool_calls[1].arguments = "bad"
    ELSE resp.candidates = <<>>

\* C8: an error raised by an adapter method ends chat with that error: no
\* model request and no tool dispatch is made after it and no text is
\* returned; a response that cannot be parsed leads to no dispatch.
C8_AdapterFailurePropagates ==
    /\ returned.kind = "error" =>
          /\ pc = "failed"
          /\ Len(hist.sends) = returned.sends
          /\ Len(provider.requests) = returned.sends
          /\ Len(hist.audit) = returned.dispatched
          /\ hist.extracts = 0
          /\ hist.model_in_flight = 0
    /\ (hist.parses # <<>> /\ pc # "parse" /\ Malformed(adapter, response)) =>
          /\ pc = "failed"
          /\ returned.error = "parse"
          /\ hist.parses[Len(hist.parses)] = "raised"
          /\ Len(hist.audit) = Len(hist.parses) - 1

C8_Witness ==
    /\ pc = "failed"
    /\ returned.error = "parse"
    /\ Len(hist.parses) = 2
    /\ Malformed(adapter, response)
    /\ Len(hist.audit) = 1

\* the names of the tool calls a response holds, in the response's order
CallNamesOf(ad, resp) ==
    IF ad = "openai"
    THEN IF resp.choices = <<>> THEN <<>>
         ELSE [i \in 1..Len(resp.choices[1].tool_calls) |->
                  resp.choices[1].tool_calls[i].name]
    ELSE IF resp.candidates = <<>> THEN <<>>
         ELSE LET fcs == SelectSeq(resp.candidates[1].parts, IsCallPart)
              IN  [i \in 1..Len(fcs) |-> fcs[i].function_call[1]]

\* C9: each model response leads to at most one dispatch, and the tool
\* dispatched for a response is the first tool call the response names.
C9_OnlyFirstToolCall ==
    /\ Len(hist.audit) <= Len(hist.parses)
    /\ \A i \in 1..Len(hist.audit) :
          /\ hist.audit[i].parses = i
          /\ CallNamesOf(adapter, hist.audit[i].response) # <<>>
          /\ hist.audit[i].tool = CallNamesOf(adapter, hist.audit[i].response)[1]

C9_Witness ==
    /\ pc = "done"
    /\ Len(hist.audit) = 2
    /\ Len(CallNamesOf(adapter, hist.audit[1].response)) = 2
    /\ Len(CallNamesOf(adapter, hist.audit[2].response)) = 2

\* the model has asked for a tool in every response so far
OnlyToolCalls == \A i \in 1..Len(hist.parses) : hist.parses[i] = "tool_call"

\* the loop was left at the first step without a tool call
LeftAtFirstAnswer ==
    /\ hist.parses # <<>>
    /\ hist.parses[Len(hist.parses)] = "answer"
    /\ \A i \in 1..(Len(hist.parses) - 1) : hist.parses[i] = "tool_call"

\* the invocation has sent as many requests as the model follows and the
\* model has not answered without a tool call yet
StillAskedForTools ==
    pc = "send" /\ Len(hist.sends) = MaxSends /\ OnlyToolCalls

\* C22: the loop is left at the first step without a tool call and at no
\* earlier step, and an invocation in which no model request, no tool
\* dispatch and no adapter step fails, and in which the model produces a
\* step without a tool call, eventually returns a final text.
C22_TerminatesWithText ==
    /\ [](pc \in {"final", "done"} => LeftAtFirstAnswer)
    /\ <>(\/ pc = "done" /\ returned.kind = "value"
          \/ pc = "failed"
          \/ StillAskedForTools)

\* a Gemini invocation has returned a text after one tool call
C22_Witness ==
    /\ adapter = "gemini"
    /\ pc = "done"
    /\ returned.kind = "value"
    /\ hist.parses = <<"tool_call", "answer">>
    /\ hist.audit[1].outcome = "ok"

\* C23: the loop has no limit on the number of tool calls.  While every
\* response of the model names a routable tool and nothing fails, the
\* invocation never leaves the loop and always has a next step, whatever the
\* call counter is; only the number of requests the model follows bounds
\* the counter here.
C23_NoCallLimit ==
    (OnlyToolCalls /\ pc # "failed") =>
        /\ pc \notin {"final", "done"}
        /\ call_count <= Len(hist.sends)
        /\ (pc # "idle" /\ ~StillAskedForTools) => ENABLED ChatNext

\* the model has asked for a tool in every response, every call succeeded,
\* and the call counter has reached the number of requests followed
C23_Witness ==
    /\ StillAskedForTools
    /\ call_count = MaxSends
    /\ hist.tool_results = MaxSends
    /\ \A i \in 1..Len(hist.audit) : hist.audit[i].outcome = "ok"

\* the message list of an OpenAI request: the system and the user message,
\* then `pairs` times an assistant turn and a tool message
PairedMessages(msgs, pairs) ==
    /\ Len(msgs) = 2 + 2 * pairs
    /\ msgs[1].role = "system"
    /\ msgs[2].role = "user"
    /\ \A j \in 1..pairs :
          /\ msgs[2 * j + 1].role = "assistant"
          /\ msgs[2 * j + 2].role = "tool"

\* the tool calls of the j-th assistant turn whose identifier the tool
\* message after the turn carries
AnsweredCalls(msgs, j) ==
    {c \in 1..Len(msgs[2 * j + 1].tool_calls) :
        msgs[2 * j + 2].tool_call_id = msgs[2 * j + 1].tool_calls[c].id}

\* C30: for the OpenAI client, every model request after the first carries
\* the system and user messages followed by one (assistant turn, tool
\* result) pair per dispatched call, and every tool call of every appended
\* assistant turn has a tool message with its identifier, also when a
\* response names several tool calls.
C30_OpenAIAnswersEveryCall ==
    adapter = "openai" =>
        \A k \in 2..Len(provider.requests) :
            LET msgs == provider.requests[k].payload
            IN  /\ PairedMessages(msgs, k - 1)
                /\ \A j \in 1..(k - 1) :
                      AnsweredCalls(msgs, j)
                          = 1..Len(msgs[2 * j + 1].tool_calls)

\* C30 for the first tool call of each assistant turn, the one dispatched
C30_OpenAIAnswersFirstCall ==
    adapter = "openai" =>
        \A k \in 2..Len(provider.requests) :
            LET msgs == provider.requests[k].payload
            IN  /\ PairedMessages(msgs, k - 1)
                /\ \A j \in 1..(k - 1) : 1 \in AnsweredCalls(msgs, j)

(***************************************************************************)
(* Properties of a client's lifetime (specification SpecLife).             *)
(***************************************************************************)
\* C14: however the body of the scope ends (it returns, add_server or chat
\* raises, the task is cancelled at an await), __aexit__ has run cleanup:
\* every context add_server entered so far is released, once, and none is
\* held.
C14_ScopeExitReleasesAll ==
    life.scope = "closed" =>
        /\ life.path \in {"return", "raise", "cancel"}
        /\ exit_stack = <<>>
        /\ Range(released) = EnteredContexts
        /\ NoDuplicates(released)
        /\ \A n \in DOMAIN sessions :
              /\ Ctx("transport", sessions[n]) \in Range(released)
              /\ Ctx("session", sessions[n]) \in Range(released)

C14_Witness ==
    /\ life.scope = "closed"
    /\ life.path = "cancel"
    /\ pc = "failed"
    /\ returned.error = "CancelledError"
    /\ Cardinality(DOMAIN sessions) = 2
    /\ Len(released) = 4

\* the tool names declared to the model with a request, in order
DeclaredNames(ad, tools) ==
    IF tools = <<>> THEN <<>>
    ELSE IF ad = "openai" THEN [i \in 1..Len(tools) |-> tools[i].name]
    ELSE tools[1].function_declarations

\* C16: every model request of an invocation declares the tools of the
\* snapshot taken at the invocation's start; a server added while the
\* invocation is suspended at a tool dispatch is not declared in it; and the
\* requests of the next invocation declare that server's tools.
C16_ChatUsesItsSnapshot ==
    \A i \in 1..Len(provider.requests) :
        LET declared == DeclaredNames(adapter, provider.requests[i].tools)
        IN  /\ declared = life.snapshot
            /\ life.midcall # <<>> =>
                  Range(conns[life.midcall[1]].tools) \cap Range(declared) = {}
            /\ (life.premid # <<>> /\ conns[life.premid[1]].outcome = "ok") =>
                  Range(conns[life.premid[1]].tools) \subseteq Range(declared)

\* the same for the OpenAI client alone, which keeps no provider session
C16_OpenAIUsesItsSnapshot == adapter = "openai" => C16_ChatUsesItsSnapshot

\* how often each step of the loop has run, as <<assistant turns appended,
\* calls dispatched, dispatches ended, tool results appended, requests sent>>
LoopCounts ==
    <<hist.assistant_turns, Len(hist.audit), hist.completed,
      hist.tool_results, Len(hist.sends)>>

\* C21: in the n-th iteration that dispatches a tool the assistant's turn is
\* appended, then the counter is incremented to n and the call dispatched
\* through the audit wrapper, then the result is appended, then the next
\* request is sent, each once; so at every place of the loop the steps before
\* it have run n times and the ones after it n - 1 times.  When the dispatch
\* fails or is cancelled, the n-th assistant turn is in the conversation,
\* the n-th result is not, and the invocation ends in that state.
C21_IterationOrder ==
    LET n == call_count
    IN  /\ pc \in {"awaiting_model", "parse", "append_assistant"} =>
              /\ hist.assistant_turns = n
              /\ Len(hist.audit) = n
              /\ hist.tool_results = n
              /\ Len(hist.sends) = n + 1
        /\ pc = "dispatch" => LoopCounts = <<n + 1, n, n, n, n + 1>>
        /\ pc = "awaiting_tool" => LoopCounts = <<n, n, n - 1, n - 1, n>>
        /\ pc = "append_result" => LoopCounts = <<n, n, n, n - 1, n>>
        /\ (pc = "send" /\ n > 0) => LoopCounts = <<n, n, n, n, n>>
        /\ (pc = "failed" /\ returned.error
                                \in {"ToolError", "ToolNotFound", "CancelledError"}) =>
              /\ n > 0
              /\ hist.assistant_turns = n
              /\ Len(hist.audit) = n
              /\ hist.audit[n].index = n
              /\ hist.tool_results = n - 1
              /\ Len(hist.sends) = n
              /\ adapter = "openai" =>
                    /\ Len(messages) = 2 * n + 1
                    /\ messages[Len(messages)] = response.choices[1]
                    /\ Cardinality(ToolMessages(messages)) = n - 1

\* the second dispatch of an OpenAI invocation is cancelled: two assistant
\* turns and one tool result are in the conversation
C21_Witness ==
    /\ adapter = "openai"
    /\ pc = "failed"
    /\ returned.error = "CancelledError"
    /\ call_count = 2
    /\ Len(messages) = 5
    /\ messages[5].role = "assistant"
    /\ messages[4].role = "tool"

\* the first model request of the running invocation created a new provider
\* session with the invocation's tool declarations and carries the
\* invocation's user input
FirstRequestIsFresh ==
    LET req == provider.requests[1]
    IN  /\ req.session > life.sessions_before
        /\ Len(provider.sessions) = life.sessions_before + 1
        /\ provider.sessions[req.session].tools = llm_tools
        /\ req.tools = llm_tools
        /\ req.payload = CurrentInput

\* C26: for the Gemini client the first model request of every chat
\* invocation creates a new provider session with the invocation's tool
\* declarations and sends the invocation's user input, whatever way the
\* invocation before on the same client ended.
C26_GeminiFreshSession ==
    (adapter = "gemini" /\ provider.requests # <<>>) => FirstRequestIsFresh

\* C26 for a first invocation and after an invocation that returned a text
C26_GeminiFreshAfterText ==
    (adapter = "gemini" /\ provider.requests # <<>>
       /\ life.ended \in {"none", "text"}) => FirstRequestIsFresh


(***************************************************************************)
(* Properties of two client instances (specification SpecTwo).             *)
(***************************************************************************)
\* everything the second instance can observe of itself: its registry as it
\* reads it, what its cleanup released, and what its chat has done
PeerView == [peer EXCEPT !.reg = PeerReg]

\* everything the first instance can observe of itself
FirstView == <<regVars, chatVars>>

\* C18: two client instances share no mutable state.  Whatever the
\* interleaving of their add_server, chat and cleanup at suspension points,
\* no step of one instance changes the registry, the tool list, the model
\* requests, the dispatches or the chat result of the other, so each
\* instance goes through the steps it goes through when it runs alone
C18_InstancesShareNothing ==
    [][/\ FirstView' = FirstView \/ ~PeerNext
       /\ PeerView' = PeerView \/ ~FirstNext]_vars

\* both instances have a server named A and are suspended in their chat at
\* the same time, the first having added a server meanwhile, each routing
\* to a connection of its own
C18_Witness ==
    /\ SuspendedAtDispatch
    /\ peer.pc = "awaiting_tool"
    /\ "A" \in DOMAIN sessions
    /\ "A" \in DOMAIN peer.reg.sessions
    /\ "B" \in DOMAIN sessions
    /\ "B" \notin DOMAIN peer.reg.sessions
    /\ peer.reg.tool_to_server # tool_to_server
    /\ peer.mcp_tools # mcp_tools
(***************************************************************************)
(* Properties of two overlapping chat invocations on one Gemini client     *)
(* (specification SpecOverlap).                                            *)
(***************************************************************************)
\* request i is the first one its provider session received
FirstOfSession(i) ==
    \A j \in 1..(i - 1) :
        provider.requests[j].session # provider.requests[i].session

\* request i carries only what belongs to the invocation that sent it and
\* goes to a session that invocation created (the first request of a
\* session carries a user input, a later one a tool response or None)
OwnRequest(i) ==
    LET req == provider.requests[i]
    IN  IF i \in chat2.sent
        THEN /\ req.session \in chat2.created
             /\ IF FirstOfSession(i) THEN req.payload = NextUserInput
                ELSE req.payload \in chat2.stored
        ELSE /\ req.session \notin chat2.created
             /\ IF FirstOfSession(i) THEN req.payload = UserInput
                ELSE req.payload \in chat2.stored1

\* C32 as stated: with a second invocation started while the first is
\* suspended, every model request still carries only its sender's user
\* input and tool results and goes to its sender's provider session.
C32_InvocationsIsolated ==
    \A i \in 1..Len(provider.requests) : OwnRequest(i)

\* C32 as the code has it: the two invocations share the client's one chat
\* object and its pending fields.  While a chat object exists it is the
\* session of the latest request, whoever sent it; the first request of a
\* session carries the user input of the chat call that was made last; a
\* later request of a session carries a tool response stored by either
\* invocation, or none; and the requests sent before the second call was
\* made carry only the first invocation's input and results.
C32_InvocationsShareTheChat ==
    /\ gemini.chat # 0 =>
          /\ provider.requests # <<>>
          /\ gemini.chat = provider.requests[Len(provider.requests)].session
    /\ \A i \in 1..Len(provider.requests) :
          LET req == provider.requests[i]
              before == chat2.entered = <<>> \/ i <= chat2.entered[1]
          IN  /\ FirstOfSession(i) =>
                    req.payload = IF before THEN UserInput ELSE NextUserInput
              /\ ~FirstOfSession(i) =>
                    req.payload \in chat2.stored \cup chat2.stored1 \cup {<<>>}
              /\ before => OwnRequest(i)

\* the second invocation has sent a tool result of the first, into the
\* session the first created, and the first has opened a session with the
\* second's user input
C32_Witness ==
    /\ \E i \in chat2.sent :
          /\ ~FirstOfSession(i)
          /\ provider.requests[i].payload \in chat2.stored1
          /\ provider.requests[i].session \notin chat2.created
    /\ \E i \in (1..Len(provider.requests)) \ chat2.sent :
          /\ FirstOfSession(i)
          /\ provider.requests[i].payload = NextUserInput

=============================================================================
